---- MODULE Spec2Model ----
(***************************************************************************)
(* Model of the MSBTE project generator:                                   *)
(*   - the generate-project edge function (three variants kept in          *)
(*     supabase/functions/generate-project/index.ts),                      *)
(*   - the client hook useProjectGeneration,                               *)
(*   - the GeneratorCard component.                                        *)
(*                                                                         *)
(* Texts are sequences of tokens.  A token stands for a class of           *)
(* substrings the code distinguishes:                                      *)
(*   "H"     a section header "## MARKER" (starts with "## ", ends with a  *)
(*           word character)                                               *)
(*   "very"  one of the adverbs very|really|quite                          *)
(*   "good"  one of the adjectives good|nice|bad                           *)
(*   "NL"    a newline character (the only whitespace of the model)        *)
(*   "effective" the replacement of an adjective (output only)             *)
(* Tokens are concatenated without separators, so a word boundary exists   *)
(* only next to "NL", next to the "#" that opens a header, or at the ends. *)
(***************************************************************************)
EXTENDS Integers, Sequences, FiniteSets, TLC

\* ------------------------------------------------------------------ bounds
MaxTextLen == 2

\* ------------------------------------------------------------- vocabulary
Null == "null"
NoMatch == "nomatch"
NoScore == -1

\* the value of a text variable that has not been assigned
NoText == <<"none">>

\* the value of a text variable that holds null: the reply's message had no
\* string content
NullContent == <<"null">>

Tok == {"H", "very", "good", "NL"}

Texts == UNION {[1..n -> Tok] : n \in 0..MaxTextLen}

PDF == "application/pdf"
DOCX == "application/vnd.openxmlformats-officedocument.wordprocessingml.document"
PPTX == "application/vnd.openxmlformats-officedocument.presentationml.presentation"
PNG == "image/png"

FileTypes == {PDF, DOCX, PPTX, PNG}

Variants == {"generic", "msbte", "enhanced"}

\* ------------------------------------------------- stage 4 text operators
StartsWord(t) == t \in {"very", "good", "effective"}
EndsWord(t) == t \in {"H", "very", "good", "effective"}

BoundaryBefore(s, i) == i = 1 \/ ~EndsWord(s[i-1])
BoundaryAfter(s, i) == i = Len(s) \/ ~StartsWord(s[i+1])

RECURSIVE HeaderBreaks(_, _, _)
HeaderBreaks(s, i, hdr) ==
  IF i > Len(s) THEN <<>>
  ELSE LET t == s[i]
           atStart == i = 1 \/ s[i-1] = "NL"
           h == IF atStart THEN t = "H" ELSE hdr
           atEnd == t # "NL" /\ (i = Len(s) \/ s[i+1] = "NL")
       IN <<t>> \o (IF atEnd /\ h THEN <<"NL">> ELSE <<>>)
               \o HeaderBreaks(s, i + 1, h)

RECURSIVE CollapseBreaks(_, _, _)
CollapseBreaks(s, i, run) ==
  IF i > Len(s) THEN <<>>
  ELSE IF s[i] = "NL"
       THEN (IF run < 2 THEN <<"NL">> ELSE <<>>) \o CollapseBreaks(s, i + 1, run + 1)
       ELSE <<s[i]>> \o CollapseBreaks(s, i + 1, 0)

enhanceFormatting(content) ==
  CollapseBreaks(HeaderBreaks(content, 1, FALSE), 1, 0)

RECURSIVE SkipBreaks(_, _)
SkipBreaks(s, i) ==
  IF i <= Len(s) /\ s[i] = "NL" THEN SkipBreaks(s, i + 1) ELSE i

RECURSIVE RemoveAdverbs(_, _)
RemoveAdverbs(s, i) ==
  IF i > Len(s) THEN <<>>
  ELSE IF s[i] = "very" /\ BoundaryBefore(s, i) /\ i < Len(s) /\ s[i+1] = "NL"
       THEN RemoveAdverbs(s, SkipBreaks(s, i + 1))
       ELSE <<s[i]>> \o RemoveAdverbs(s, i + 1)

ReplaceAdjectives(s) ==
  [i \in 1..Len(s) |->
     IF s[i] = "good" /\ BoundaryBefore(s, i) /\ BoundaryAfter(s, i)
     THEN "effective" ELSE s[i]]

enhanceQuality(content) == ReplaceAdjectives(RemoveAdverbs(content, 1))

applyFinalFormatting_OneThreshold(content, complianceCheck) ==
  LET c1 == IF complianceCheck.complianceScore < 80
            THEN enhanceFormatting(content) ELSE content
  IN IF complianceCheck.qualityScore < 80 THEN enhanceQuality(c1) ELSE c1

applyFinalFormatting(content, complianceCheck) ==
  LET c1 == IF complianceCheck.complianceScore < 80
            THEN enhanceFormatting(content) ELSE content
  IN IF complianceCheck.qualityScore < 85 THEN enhanceQuality(c1) ELSE c1


\* ------------------------------------------------ generation service I/O
\* A reply of the generation service: status 0 is a transport error (fetch
\* rejects); choices tells whether the JSON body has a choices[0].message;
\* content whether that message has a string content; body is the content.
TextReplies ==
  {[status |-> st, choices |-> FALSE, content |-> FALSE, body |-> <<>>] :
      st \in {0, 200, 402, 429, 500}}
    \cup {[status |-> 200, choices |-> TRUE, content |-> FALSE, body |-> <<>>]}
    \cup {[status |-> 200, choices |-> TRUE, content |-> TRUE, body |-> t] : t \in Texts}

\* The compliance analysis, by what each anchored regular expression of
\* checkMSBTECompliance captures in it (NoMatch: the expression fails).
\* Analyses that are well formed, that lack one field, that lack every
\* field, and one whose scores are outside 0..100.
Analyses ==
  [cs : {79, 85}, ic : {"true"}, lists : {"one"}, qs : {79, 85}]
    \cup {[cs |-> NoScore, ic |-> "true", lists |-> "one", qs |-> 85],
          [cs |-> 85, ic |-> "true", lists |-> "one", qs |-> NoScore],
          [cs |-> 85, ic |-> NoMatch, lists |-> "one", qs |-> 85],
          [cs |-> 85, ic |-> "true", lists |-> NoMatch, qs |-> 85],
          [cs |-> NoScore, ic |-> NoMatch, lists |-> NoMatch, qs |-> NoScore],
          [cs |-> 250, ic |-> "true", lists |-> "one", qs |-> 250]}

NoAnalysis == [cs |-> NoScore, ic |-> NoMatch, lists |-> NoMatch, qs |-> NoScore]

AnalysisReplies ==
  {[status |-> st, choices |-> FALSE, content |-> FALSE, body |-> NoAnalysis] :
      st \in {0, 200, 402, 429, 500}}
    \cup {[status |-> 200, choices |-> TRUE, content |-> FALSE, body |-> NoAnalysis]}
    \cup {[status |-> 200, choices |-> TRUE, content |-> TRUE, body |-> a] : a \in Analyses}

ReplyOk(r) == r.status >= 200 /\ r.status <= 299

\* true when awaiting the reply and reading choices[0].message.content
\* raises no exception
ReplyUsable(r) == ReplyOk(r) /\ r.choices

\* true when, in addition, the content is a string, so that the string
\* methods called on it inside the stage's try block do not throw
ReplyHasText(r) == ReplyUsable(r) /\ r.content

\* ------------------------------------------------------- error messages
ErrUnsupported == "Unsupported file type"
ErrDecode == "Failed to decode base64"
ErrNoKey == "LOVABLE_API_KEY is not configured"
ErrEnhancedAI == "Failed to process content with enhanced AI"
ErrRate == "Rate limits exceeded. Please try again later."
ErrQuota == "AI usage limit reached. Please add credits."
ErrGateway == "AI gateway error"
ErrFetch == "TypeError: error sending request"
ErrChoices == "TypeError: Cannot read properties of undefined"
ErrNull == "TypeError: Cannot read properties of null"

\* -------------------------------------------------------------- responses
NoResponse == [status |-> 0, success |-> "absent", error |-> Null, content |-> Null]

ErrorResponse(msg) ==
  [status |-> 500, success |-> "false", error |-> msg, content |-> Null]

\* the 429/402 branch of the single-stage variants: no success field
LimitResponse(st, msg) ==
  [status |-> st, success |-> "absent", error |-> msg, content |-> Null]

SuccessResponse ==
  [status |-> 200, success |-> "true", error |-> Null, content |-> "docx"]

OptionsResponse ==
  [status |-> 200, success |-> "absent", error |-> Null, content |-> Null]

\* ------------------------------------------------------- compliance check
DefaultCompliance ==
  [isCompliant |-> FALSE, complianceScore |-> 70,
   issues |-> <<"Compliance check failed">>,
   recommendations |-> <<"Manual review required">>, qualityScore |-> 75]

NoCompliance ==
  [isCompliant |-> FALSE, complianceScore |-> 0, issues |-> <<>>,
   recommendations |-> <<>>, qualityScore |-> 0]

ParseAnalysis(a) ==
  [isCompliant |-> (a.ic = "true"),
   complianceScore |-> (IF a.cs = NoScore THEN 70 ELSE a.cs),
   issues |-> (IF a.lists = NoMatch THEN <<>> ELSE <<"issue">>),
   recommendations |-> (IF a.lists = NoMatch THEN <<>> ELSE <<"recommendation">>),
   qualityScore |-> (IF a.qs = NoScore THEN 75 ELSE a.qs)]

checkMSBTEComplianceResult(r) ==
  IF ReplyHasText(r) THEN ParseAnalysis(r.body) ELSE DefaultCompliance

validateAndEnhanceContentResult(content, r) ==
  IF ReplyUsable(r) THEN (IF r.content THEN r.body ELSE NullContent) ELSE content

\* --------------------------------------------------------- quality metrics
Min(a, b) == IF a <= b THEN a ELSE b

\* Math.round(n / d) for n >= 0 and d > 0
Round(n, d) == (2 * n + d) \div (2 * d)

\* (content.match(/## \w+/g) || []).length: one match in every header
Headers(content) == Cardinality({i \in DOMAIN content : content[i] = "H"})

\* the runs of newlines
Breaks(content) ==
  Cardinality({i \in DOMAIN content : content[i] = "NL" /\ (i = 1 \/ content[i-1] # "NL")})

\* content.split(/\s+/).length: one more than the runs of whitespace, which
\* are the runs of newlines and the blank inside every header
Words(content) == 1 + Headers(content) + Breaks(content)

\* the matches of the technical terms: none of the tokens is one, and the term
\* inside a marker name follows an underscore, which is no word boundary
TechnicalTerms(content) == 0

\* sections: extractedData.structure.sections.length
calculateInitialQualityMetrics(content, sections) ==
  [technicalDepth |-> Min(100, Round(TechnicalTerms(content) * 1000, Words(content))),
   academicQuality |-> Min(100, Round(Words(content) * 100, 1000)),
   completeness |-> Min(100, Round(Headers(content) * 100, 10)),
   relevance |-> IF sections > 0 THEN 85 ELSE 70]

\* qualityMetrics of the success response
qualityMetrics(initial, check) ==
  [technicalDepth |-> initial.technicalDepth,
   academicQuality |-> initial.academicQuality,
   completeness |-> initial.completeness,
   relevance |-> initial.relevance,
   complianceScore |-> check.complianceScore,
   overallScore |-> check.qualityScore]

\* ---------------------------------------------------------------- state
VARIABLES
  variant,          \* which of the three versions of the endpoint is deployed
  pc,               \* position of the request handler
  req,              \* the request being handled
  outbound,         \* generation-service calls issued for this request
  pending,          \* generation-service calls issued and not yet answered
  replies,          \* status and usability of the replies received, in order
  aiContent,        \* aiProcessingResult.content / generatedContent (stage 1)
  validatedContent, \* result of stage 2
  complianceCheck,  \* result of stage 3
  finalContent,     \* result of stage 4
  parserInput,      \* argument of parseMSBTEContent / parseGeneratedContent
  stageLog,         \* stages entered, in order, with the text each received
  response          \* the Response returned

VARIABLES
  applied,          \* the function of the endpoint applied on its own, "none" before
  argument,         \* its argument
  result            \* its result

fvars == <<applied, argument, result>>

svars == <<variant, pc, req, outbound, pending, replies, aiContent,
           validatedContent, complianceCheck, finalContent, parserInput,
           stageLog, response, fvars>>

VARIABLES
  state,              \* GenerationState
  lastGenerationRef,  \* lastGenerationRef.current
  calls,              \* generateProject invocations that have not settled
  toast               \* the last toast shown

hvars == <<state, lastGenerationRef, calls, toast>>

VARIABLES
  mounted,            \* the client component the page uses: the hook or the card
  card,               \* the useState values of GeneratorCard
  cardCalls           \* handleGenerate invocations that have not settled

cvars == <<mounted, card, cardCalls>>

vars == <<svars, hvars, cvars>>

NoRequest == [method |-> Null, fileType |-> Null, b64ok |-> TRUE, apiKey |-> TRUE]

\* b64ok: atob accepts fileContent; apiKey: LOVABLE_API_KEY is set in the
\* environment when the request is handled
Requests ==
  [method : {"POST", "OPTIONS"}, fileType : FileTypes, b64ok : BOOLEAN, apiKey : BOOLEAN]

Entry(stage, input, check) == [stage |-> stage, input |-> input, check |-> check]

Received(r) == [status |-> r.status, choices |-> r.choices, content |-> r.content]

NoValue == "none"

\* no function has been applied on its own
InitFunctions ==
  /\ applied = "none"
  /\ argument = NoValue
  /\ result = NoValue

InitHandler ==
  /\ variant \in Variants
  /\ pc = "idle"
  /\ req = NoRequest
  /\ outbound = 0
  /\ pending = 0
  /\ replies = <<>>
  /\ aiContent = NoText
  /\ validatedContent = NoText
  /\ complianceCheck = NoCompliance
  /\ finalContent = NoText
  /\ parserInput = NoText
  /\ stageLog = <<>>
  /\ response = NoResponse

InitServer == InitHandler /\ InitFunctions

Respond(r) ==
  /\ response' = r
  /\ pc' = "done"

SupportedType_AcceptsAll(ft) == ft \in FileTypes

SupportedType(ft) == ft \in {PDF, DOCX, PPTX}

PreflightError_NoKeyCheck(r) ==
  IF ~SupportedType(r.fileType) THEN ErrUnsupported
  ELSE IF ~r.b64ok THEN ErrDecode
  ELSE Null

\* what the handler throws before its first generation-service call
PreflightError(r) ==
  IF ~SupportedType(r.fileType) THEN ErrUnsupported
  ELSE IF ~r.b64ok THEN ErrDecode
  ELSE IF ~r.apiKey THEN ErrNoKey
  ELSE Null

\* the response of the single-stage variants to a failed generation call
SingleStageFailure(r) ==
  IF r.status = 0 THEN ErrorResponse(ErrFetch)
  ELSE IF r.status = 429 THEN LimitResponse(429, ErrRate)
  ELSE IF r.status = 402 THEN LimitResponse(402, ErrQuota)
  ELSE IF ~ReplyOk(r) THEN ErrorResponse(ErrGateway)
  ELSE IF ~r.choices THEN ErrorResponse(ErrChoices)
  ELSE ErrorResponse(ErrNull)

\* the response of the enhanced variant to a failed stage-1 call: whatever
\* was thrown inside processWithEnhancedAI is replaced by one message
EnhancedFailure(r) == ErrorResponse(ErrEnhancedAI)

GenerationFailure(v, r) ==
  IF v = "enhanced" THEN EnhancedFailure(r) ELSE SingleStageFailure(r)

\* serve handler, from the entry to the first awaited generation-service call
Serve(r) ==
  /\ UNCHANGED <<hvars, cvars, fvars>>
  /\ pc = "idle"
  /\ req' = r
  /\ UNCHANGED <<variant, replies, aiContent, validatedContent, complianceCheck,
                 finalContent, parserInput>>
  /\ IF r.method = "OPTIONS"
     THEN Respond(OptionsResponse) /\ UNCHANGED <<outbound, pending, stageLog>>
     ELSE IF PreflightError(r) # Null
     THEN /\ Respond(ErrorResponse(PreflightError(r)))
          /\ UNCHANGED <<outbound, pending, stageLog>>
     ELSE /\ outbound' = outbound + 1
          /\ pending' = pending + 1
          /\ stageLog' = IF variant = "enhanced"
                         THEN Append(stageLog, Entry("generate", NoText, NoCompliance))
                         ELSE stageLog
          /\ pc' = IF variant = "enhanced" THEN "stage1" ELSE "ai"
          /\ UNCHANGED response

\* single-stage variants: the reply of the only generation-service call
AIReply(r) ==
  /\ UNCHANGED <<hvars, cvars, fvars>>
  /\ pc = "ai"
  /\ pending' = pending - 1
  /\ replies' = Append(replies, Received(r))
  /\ UNCHANGED <<variant, req, outbound, validatedContent, complianceCheck,
                 finalContent, stageLog>>
  /\ IF ReplyHasText(r)
     THEN /\ aiContent' = r.body
          /\ parserInput' = r.body
          /\ Respond(SuccessResponse)
     ELSE /\ Respond(GenerationFailure(variant, r))
          /\ UNCHANGED <<aiContent, parserInput>>

Stage1Reply_PassThrough(r) ==
  /\ UNCHANGED <<hvars, cvars, fvars>>
  /\ pc = "stage1"
  /\ replies' = Append(replies, Received(r))
  /\ UNCHANGED <<variant, req, validatedContent, complianceCheck, finalContent,
                 parserInput>>
  /\ aiContent' = r.body
  /\ stageLog' = Append(stageLog, Entry("enhance", r.body, NoCompliance))
  /\ outbound' = outbound + 1
  /\ pending' = pending
  /\ pc' = "stage2"
  /\ UNCHANGED response

\* enhanced variant: reply of processWithEnhancedAI's call, then the call of
\* validateAndEnhanceContent is issued
Stage1Reply(r) ==
  /\ UNCHANGED <<hvars, cvars, fvars>>
  /\ pc = "stage1"
  /\ replies' = Append(replies, Received(r))
  /\ UNCHANGED <<variant, req, validatedContent, complianceCheck, finalContent,
                 parserInput>>
  /\ IF ReplyHasText(r)
     THEN /\ aiContent' = r.body
          /\ stageLog' = Append(stageLog, Entry("enhance", r.body, NoCompliance))
          /\ outbound' = outbound + 1
          /\ pending' = pending
          /\ pc' = "stage2"
          /\ UNCHANGED response
     ELSE /\ pending' = pending - 1
          /\ Respond(GenerationFailure(variant, r))
          /\ UNCHANGED <<aiContent, stageLog, outbound>>

Stage2Reply_RetriesOnce(r) ==
  /\ UNCHANGED <<hvars, cvars, fvars>>
  /\ pc = "stage2"
  /\ replies' = Append(replies, Received(r))
  /\ outbound' = outbound + 1
  /\ pending' = pending
  /\ UNCHANGED <<variant, req, aiContent, complianceCheck, finalContent,
                 parserInput, response>>
  /\ IF ~ReplyUsable(r) /\ Len(replies) < 2
     THEN /\ stageLog' = Append(stageLog, Entry("enhance", aiContent, NoCompliance))
          /\ pc' = "stage2"
          /\ UNCHANGED validatedContent
     ELSE /\ validatedContent' = validateAndEnhanceContentResult(aiContent, r)
          /\ stageLog' = Append(stageLog, Entry("compliance", validatedContent', NoCompliance))
          /\ pc' = "stage3"

\* reply of validateAndEnhanceContent's call, then the call of
\* checkMSBTECompliance is issued
Stage2Reply(r) ==
  /\ UNCHANGED <<hvars, cvars, fvars>>
  /\ pc = "stage2"
  /\ replies' = Append(replies, Received(r))
  /\ validatedContent' = validateAndEnhanceContentResult(aiContent, r)
  /\ stageLog' = Append(stageLog, Entry("compliance", validatedContent', NoCompliance))
  /\ outbound' = outbound + 1
  /\ pending' = pending
  /\ pc' = "stage3"
  /\ UNCHANGED <<variant, req, aiContent, complianceCheck, finalContent,
                 parserInput, response>>

\* stage 4 and the parser call string methods of the content and throw
\* when it is null; stage 4 calls one only when a score is below its
\* threshold
FormattingThrows(content, check) ==
  content = NullContent /\ (check.complianceScore < 80 \/ check.qualityScore < 85)

Stage3Reply_FormatsStage1(r) ==
  /\ UNCHANGED <<hvars, cvars, fvars>>
  /\ pc = "stage3"
  /\ pending' = pending - 1
  /\ replies' = Append(replies, Received(r))
  /\ complianceCheck' = checkMSBTEComplianceResult(r)
  /\ finalContent' = applyFinalFormatting(aiContent, complianceCheck')
  /\ parserInput' = finalContent'
  /\ stageLog' = stageLog \o <<Entry("format", aiContent, complianceCheck'),
                               Entry("parse", finalContent', NoCompliance)>>
  /\ Respond(SuccessResponse)
  /\ UNCHANGED <<variant, req, outbound, aiContent, validatedContent>>

\* reply of checkMSBTECompliance's call, then stage 4, the parser, the
\* document and the response
Stage3Reply(r) ==
  /\ UNCHANGED <<hvars, cvars, fvars>>
  /\ pc = "stage3"
  /\ pending' = pending - 1
  /\ replies' = Append(replies, Received(r))
  /\ complianceCheck' = checkMSBTEComplianceResult(r)
  /\ UNCHANGED <<variant, req, outbound, aiContent, validatedContent>>
  /\ IF FormattingThrows(validatedContent, complianceCheck')
     THEN /\ stageLog' = Append(stageLog, Entry("format", validatedContent, complianceCheck'))
          /\ UNCHANGED <<finalContent, parserInput>>
          /\ Respond(ErrorResponse(ErrNull))
     ELSE /\ finalContent' = IF validatedContent = NullContent THEN NullContent
                             ELSE applyFinalFormatting(validatedContent, complianceCheck')
          /\ parserInput' = finalContent'
          /\ stageLog' = stageLog \o <<Entry("format", validatedContent, complianceCheck'),
                                       Entry("parse", finalContent', NoCompliance)>>
          /\ IF finalContent' = NullContent
             THEN Respond(ErrorResponse(ErrNull))
             ELSE Respond(SuccessResponse)

\* the invocation ends; the next one starts from scratch
Finish ==
  /\ UNCHANGED <<hvars, cvars, fvars>>
  /\ pc = "done"
  /\ pc' = "idle"
  /\ req' = NoRequest
  /\ outbound' = 0
  /\ pending' = 0
  /\ replies' = <<>>
  /\ aiContent' = NoText
  /\ validatedContent' = NoText
  /\ complianceCheck' = NoCompliance
  /\ finalContent' = NoText
  /\ parserInput' = NoText
  /\ stageLog' = <<>>
  /\ response' = NoResponse
  /\ UNCHANGED variant

\* ================================================== useProjectGeneration
MaxInFlight == 2

MaxRetryCalls == 1

NoFile == "nofile"

Files == {NoFile, "report.docx"}

CompleteData(topic) ==
  [name |-> "Asha Rao", rollNumber |-> "CO21-45", enrollmentNumber |-> "2021170045",
   college |-> "GP Pune", topic |-> topic]

RequiredFields == {"name", "rollNumber", "enrollmentNumber", "college", "topic"}

\* complete student data, and the same with one required field empty
ProjectDatas ==
  {CompleteData("IoT")}
    \cup {[CompleteData("IoT") EXCEPT ![f] = ""] : f \in RequiredFields}

ErrMissing == "Missing required information. Please fill all required fields."
ErrDefault == "Failed to generate project"
ErrGenerationFailed == "Generation failed"
ErrSyntax == "SyntaxError: Unexpected token"
ErrNetwork == "TypeError: Failed to fetch"
ErrNoPrevious == "No previous generation to retry"
ToastGenerated == "Project generated successfully with AI enhancements!"

NoFileAnalysis == "noanalysis"

FileAnalyses == {NoFileAnalysis, "analysis"}

\* who awaits an invocation of generateProject
Callers == {"component", "retryGeneration"}

\* The arguments generateProject is called with: complete ones with and
\* without a file analysis, and ones that lack the file or one field.
Arguments ==
  {<<file, projectData, fileAnalysis>> \in Files \X ProjectDatas \X FileAnalyses :
     \/ file # NoFile /\ projectData = CompleteData("IoT")
     \/ file = NoFile /\ projectData = CompleteData("IoT") /\ fileAnalysis = NoFileAnalysis
     \/ file # NoFile /\ fileAnalysis = NoFileAnalysis}

\* Bodies of the endpoint's responses as the hook reads them.  success is
\* the body's success field, error its error field ("" when absent or
\* empty), text the raw body when it is not JSON.
OkBodies ==
  {[json |-> TRUE, success |-> TRUE, error |-> "", text |-> "", content |-> "docA", rich |-> TRUE],
   [json |-> TRUE, success |-> TRUE, error |-> "", text |-> "", content |-> "docB", rich |-> FALSE],
   [json |-> TRUE, success |-> FALSE, error |-> "E", text |-> "", content |-> Null, rich |-> FALSE],
   [json |-> TRUE, success |-> FALSE, error |-> "", text |-> "", content |-> Null, rich |-> FALSE],
   [json |-> FALSE, success |-> FALSE, error |-> "", text |-> "T", content |-> Null, rich |-> FALSE]}

ErrorBodies ==
  {[json |-> TRUE, success |-> FALSE, error |-> "E", text |-> "", content |-> Null, rich |-> FALSE],
   [json |-> FALSE, success |-> FALSE, error |-> "", text |-> "T", content |-> Null, rich |-> FALSE],
   [json |-> FALSE, success |-> FALSE, error |-> "", text |-> "", content |-> Null, rich |-> FALSE]}

\* a || b on strings
OrElse(a, b) == IF a = "" THEN b ELSE a

\* the message thrown for a response that is not ok
NotOkMessage(body) ==
  IF body.json THEN OrElse(body.error, ErrDefault) ELSE OrElse(body.text, ErrDefault)

InitialState ==
  [isLoading |-> FALSE, error |-> Null, generatedContent |-> Null,
   qualityMetrics |-> Null, complianceInfo |-> Null, suggestions |-> <<>>,
   currentStage |-> "idle", progress |-> 0]

\* lastGenerationRef.current: null (set is FALSE) or the stored inputs
NoGeneration ==
  [set |-> FALSE, file |-> NoFile, projectData |-> CompleteData(""),
   fileAnalysis |-> NoFileAnalysis]

Stored(file, projectData, fileAnalysis) ==
  [set |-> TRUE, file |-> file, projectData |-> projectData,
   fileAnalysis |-> fileAnalysis]

InitHook ==
  /\ state = InitialState
  /\ lastGenerationRef = NoGeneration
  /\ calls = <<>>
  /\ toast = Null

HasLast == lastGenerationRef.set

Merge(st, updates) ==
  [k \in DOMAIN st |-> IF k \in DOMAIN updates THEN updates[k] ELSE st[k]]

\* the number that stands for NaN
NaN == -1000000

\* Math.max(0, Math.min(100, progress)): both return NaN for a NaN argument
Clamp(progress) ==
  IF progress = NaN THEN NaN
  ELSE IF progress < 0 THEN 0 ELSE IF progress > 100 THEN 100 ELSE progress

\* the catch block of generateProject
Failed(st, msg) ==
  Merge(st, [error |-> msg, isLoading |-> FALSE, currentStage |-> "idle", progress |-> 0])

Started_KeepsResult(st) ==
  Merge(st, [isLoading |-> TRUE, error |-> Null, currentStage |-> "analyzing", progress |-> 0])

\* the state reset that opens generateProject
Started(st) ==
  Merge(st, [isLoading |-> TRUE, error |-> Null, generatedContent |-> Null,
             qualityMetrics |-> Null, complianceInfo |-> Null, suggestions |-> <<>>,
             currentStage |-> "analyzing", progress |-> 0])

ValidInputs_FileOnly(file, projectData) == file # NoFile

ValidInputs(file, projectData) ==
  /\ file # NoFile
  /\ \A f \in RequiredFields : projectData[f] # ""

Remove(seq, i) == [k \in 1..(Len(seq) - 1) |-> IF k < i THEN seq[k] ELSE seq[k + 1]]

\* reader.result of readAsDataURL
DataURL(file) == <<"data:", file, ";base64">>

NoBody == [fileContent |-> <<>>, fileName |-> Null, studentData |-> CompleteData(""),
           fileAnalysis |-> Null]

\* the body of the request to the endpoint
RequestBody(base64File, file, projectData, fileAnalysis) ==
  [fileContent |-> base64File, fileName |-> file, studentData |-> projectData,
   fileAnalysis |-> IF fileAnalysis = NoFileAnalysis THEN "undefined" ELSE "summary"]

\* identifiers of the invocations in flight
CallIds(cs) == {cs[i].id : i \in 1..Len(cs)}

\* the smallest identifier not in use
FreeId(cs) ==
  CHOOSE k \in 1..(Len(cs) + 1) : k \notin CallIds(cs) /\ \A j \in 1..(k-1) : j \in CallIds(cs)

\* an invocation of generateProject suspended at its first await; caller is
\* the function that awaits it, requests the number of requests it has sent
NewCall(cs, file, projectData, fileAnalysis, caller) ==
  [id |-> FreeId(cs), at |-> "reading", file |-> file, projectData |-> projectData,
   fileAnalysis |-> fileAnalysis, caller |-> caller, requests |-> 0, body |-> NoBody]

\* the invocations in flight are kept in the order of their identifiers
Insert(cs, c) ==
  LET n == Cardinality({i \in 1..Len(cs) : cs[i].id < c.id})
  IN [k \in 1..(Len(cs) + 1) |-> IF k <= n THEN cs[k] ELSE IF k = n + 1 THEN c ELSE cs[k - 1]]

\* generateProject up to the await of convertFileToBase64
generateProject(file, projectData, fileAnalysis, caller) ==
  /\ lastGenerationRef' = Stored(file, projectData, fileAnalysis)
  /\ IF ValidInputs(file, projectData)
     THEN /\ state' = Merge(Started(state), [currentStage |-> "generating", progress |-> Clamp(30)])
          /\ calls' = Insert(calls, NewCall(calls, file, projectData, fileAnalysis, caller))
          /\ toast' = toast
     ELSE /\ state' = Failed(Started(state), ErrMissing)
          /\ calls' = calls
          /\ toast' = ErrMissing

\* the component calls generateProject; max caps the invocations in flight
GenerateProject(max, arguments) ==
  \E args \in arguments :
    /\ Len(calls) < max
    /\ generateProject(args[1], args[2], args[3], "component")
    /\ UNCHANGED <<svars, cvars>>

RetryGeneration_DropsAnalysis(max) ==
  /\ UNCHANGED <<svars, cvars>>
  /\ IF HasLast
     THEN /\ Len(calls) < max
          /\ generateProject(lastGenerationRef.file, lastGenerationRef.projectData,
                             NoFileAnalysis, "retryGeneration")
     ELSE /\ toast' = ErrNoPrevious
          /\ UNCHANGED <<state, lastGenerationRef, calls>>

\* retryGeneration: generateProject with the stored inputs, or a toast
RetryGeneration(max) ==
  /\ UNCHANGED <<svars, cvars>>
  /\ IF HasLast
     THEN /\ Len(calls) < max
          /\ generateProject(lastGenerationRef.file, lastGenerationRef.projectData,
                             lastGenerationRef.fileAnalysis, "retryGeneration")
     ELSE /\ toast' = ErrNoPrevious
          /\ UNCHANGED <<state, lastGenerationRef, calls>>

ReadSettles_SendsAnyway(i, loaded) ==
  /\ i \in 1..Len(calls)
  /\ calls[i].at = "reading"
  /\ state' = Merge(state, [progress |-> Clamp(60)])
  /\ calls' = [calls EXCEPT ![i].at = "fetching",
                            ![i].requests = @ + 1,
                            ![i].body = RequestBody(IF loaded THEN DataURL(calls[i].file) ELSE <<>>,
                                                    calls[i].file, calls[i].projectData,
                                                    calls[i].fileAnalysis)]
  /\ toast' = toast
  /\ UNCHANGED <<lastGenerationRef, svars, cvars>>

\* the FileReader settles: onload, then the request is sent; or onerror
ReadSettles(i, loaded) ==
  /\ i \in 1..Len(calls)
  /\ calls[i].at = "reading"
  /\ IF loaded
     THEN /\ state' = Merge(state, [progress |-> Clamp(60)])
          /\ calls' = [calls EXCEPT ![i].at = "fetching",
                                    ![i].requests = @ + 1,
                                    ![i].body = RequestBody(DataURL(calls[i].file), calls[i].file,
                                                            calls[i].projectData, calls[i].fileAnalysis)]
          /\ toast' = toast
     ELSE /\ state' = Failed(state, ErrDefault)
          /\ calls' = Remove(calls, i)
          /\ toast' = ErrDefault
  /\ UNCHANGED <<lastGenerationRef, svars, cvars>>

\* fetch settles: rejected (transport error), or resolved with response.ok
FetchSettles(i, resolved, ok) ==
  /\ i \in 1..Len(calls)
  /\ calls[i].at = "fetching"
  /\ IF ~resolved
     THEN /\ state' = Failed(state, ErrNetwork)
          /\ calls' = Remove(calls, i)
          /\ toast' = ErrNetwork
     ELSE IF ok
     THEN /\ state' = Merge(state, [progress |-> Clamp(80), currentStage |-> "enhancing"])
          /\ calls' = [calls EXCEPT ![i].at = "json"]
          /\ toast' = toast
     ELSE /\ state' = Merge(state, [progress |-> Clamp(80)])
          /\ calls' = [calls EXCEPT ![i].at = "text"]
          /\ toast' = toast
  /\ UNCHANGED <<lastGenerationRef, svars, cvars>>

\* response.text() of a response that is not ok settles
TextSettles(i, body) ==
  /\ i \in 1..Len(calls)
  /\ calls[i].at = "text"
  /\ state' = Failed(state, NotOkMessage(body))
  /\ toast' = NotOkMessage(body)
  /\ calls' = Remove(calls, i)
  /\ UNCHANGED <<lastGenerationRef, svars, cvars>>

\* the state update of a response with success true
Completed(st, body) ==
  Merge(st,
    [generatedContent |-> body.content,
     qualityMetrics |-> (IF body.rich THEN "metrics" ELSE Null),
     complianceInfo |-> (IF body.rich THEN "compliance" ELSE Null),
     suggestions |-> (IF body.rich THEN <<"suggestion">> ELSE <<>>),
     currentStage |-> "completed", progress |-> 100, isLoading |-> FALSE])

\* response.json() of an ok response settles
JsonSettles(i, body) ==
  /\ i \in 1..Len(calls)
  /\ calls[i].at = "json"
  /\ calls' = Remove(calls, i)
  /\ IF ~body.json
     THEN state' = Failed(state, ErrSyntax) /\ toast' = ErrSyntax
     ELSE IF body.success
     THEN state' = Completed(state, body) /\ toast' = ToastGenerated
     ELSE /\ state' = Failed(Merge(state, [progress |-> Clamp(90)]),
                             OrElse(body.error, ErrGenerationFailed))
          /\ toast' = OrElse(body.error, ErrGenerationFailed)
  /\ UNCHANGED <<lastGenerationRef, svars, cvars>>

ResetGeneration ==
  /\ state' = Merge(state, InitialState)
  /\ lastGenerationRef' = NoGeneration
  /\ UNCHANGED <<calls, toast, svars, cvars>>

\* an awaited promise of some invocation settles
Settle ==
  \/ \E i \in DOMAIN calls, loaded \in BOOLEAN : ReadSettles(i, loaded)
  \/ \E i \in DOMAIN calls, resolved \in BOOLEAN, ok \in BOOLEAN : FetchSettles(i, resolved, ok)
  \/ \E i \in DOMAIN calls, body \in ErrorBodies : TextSettles(i, body)
  \/ \E i \in DOMAIN calls, body \in OkBodies : JsonSettles(i, body)

\* the hook used without a file analysis, invocations overlapping
NextHook ==
  \/ RetryGeneration(MaxInFlight)
  \/ GenerateProject(MaxInFlight, {args \in Arguments : args[3] = NoFileAnalysis})
  \/ Settle
  \/ ResetGeneration

\* the hook used with and without a file analysis
NextRetry ==
  \/ RetryGeneration(MaxRetryCalls)
  \/ GenerateProject(MaxRetryCalls, Arguments)
  \/ Settle
  \/ ResetGeneration

\* ========================================================== GeneratorCard
ErrUpload == "Please upload a reference document"
ErrFields == "Please fill in all required fields"
ErrRead == "Failed to read file"
ToastCardGenerated == "Project generated successfully!"

EmptyForm == [f \in RequiredFields |-> ""]

InitialCard ==
  [selectedFile |-> NoFile, isGenerating |-> FALSE, generatedFile |-> Null,
   qualityMetrics |-> Null, complianceInfo |-> Null, suggestions |-> <<>>,
   activeTab |-> "generate", formData |-> EmptyForm]

InitCard ==
  /\ card = InitialCard
  /\ cardCalls = <<>>

\* the toast of validateForm, Null when the form is valid
validateForm(c) ==
  IF c.selectedFile = NoFile THEN ErrUpload
  ELSE IF \E f \in RequiredFields : c.formData[f] = "" THEN ErrFields
  ELSE Null

\* FileUpload's onFileSelect
SetSelectedFile(file) ==
  /\ mounted = "card"
  /\ card' = [card EXCEPT !.selectedFile = file]
  /\ UNCHANGED <<svars, hvars, mounted, cardCalls>>

\* StudentForm's onChange
handleFormChange(field, value) ==
  /\ mounted = "card"
  /\ card' = [card EXCEPT !.formData[field] = value]
  /\ UNCHANGED <<svars, hvars, mounted, cardCalls>>

\* a click on the Generate button, which is disabled while isGenerating
handleGenerate ==
  /\ mounted = "card"
  /\ ~card.isGenerating
  /\ IF validateForm(card) # Null
     THEN /\ toast' = validateForm(card)
          /\ UNCHANGED <<card, cardCalls>>
     ELSE /\ card' = [card EXCEPT !.isGenerating = TRUE, !.generatedFile = Null]
          /\ cardCalls' = Append(cardCalls,
               [at |-> "reading", file |-> card.selectedFile, formData |-> card.formData,
                requests |-> 0, body |-> NoBody])
          /\ toast' = toast
  /\ UNCHANGED <<svars, state, lastGenerationRef, calls, mounted>>

\* the catch blocks of handleGenerate and reader.onerror
CardFailed(c, msg) ==
  /\ card' = [c EXCEPT !.isGenerating = FALSE]
  /\ toast' = msg

CardReadSettles_KeepsSpinner(i, loaded) ==
  /\ i \in DOMAIN cardCalls
  /\ cardCalls[i].at = "reading"
  /\ IF loaded
     THEN /\ cardCalls' = [cardCalls EXCEPT ![i].at = "fetching", ![i].requests = @ + 1]
          /\ UNCHANGED <<card, toast>>
     ELSE /\ cardCalls' = Remove(cardCalls, i)
          /\ toast' = ErrRead
          /\ UNCHANGED card
  /\ UNCHANGED <<svars, state, lastGenerationRef, calls, mounted>>

\* reader.onload, up to the await of fetch; or reader.onerror
CardReadSettles(i, loaded) ==
  /\ i \in DOMAIN cardCalls
  /\ cardCalls[i].at = "reading"
  /\ IF loaded
     THEN /\ cardCalls' =
               [cardCalls EXCEPT ![i].at = "fetching",
                                 ![i].requests = @ + 1,
                                 ![i].body = RequestBody(DataURL(cardCalls[i].file), cardCalls[i].file,
                                                         cardCalls[i].formData, NoFileAnalysis)]
          /\ UNCHANGED <<card, toast>>
     ELSE /\ cardCalls' = Remove(cardCalls, i)
          /\ CardFailed(card, ErrRead)
  /\ UNCHANGED <<svars, state, lastGenerationRef, calls, mounted>>

CardFetchSettles(i, resolved, ok) ==
  /\ i \in DOMAIN cardCalls
  /\ cardCalls[i].at = "fetching"
  /\ IF ~resolved
     THEN /\ cardCalls' = Remove(cardCalls, i)
          /\ CardFailed(card, ErrNetwork)
     ELSE /\ cardCalls' = [cardCalls EXCEPT ![i].at = IF ok THEN "json" ELSE "text"]
          /\ UNCHANGED <<card, toast>>
  /\ UNCHANGED <<svars, state, lastGenerationRef, calls, mounted>>

CardTextSettles(i, body) ==
  /\ i \in DOMAIN cardCalls
  /\ cardCalls[i].at = "text"
  /\ cardCalls' = Remove(cardCalls, i)
  /\ CardFailed(card, NotOkMessage(body))
  /\ UNCHANGED <<svars, state, lastGenerationRef, calls, mounted>>

\* the setters called for a response with success true
CardCompleted(c, body) ==
  [c EXCEPT !.generatedFile = body.content,
            !.qualityMetrics = IF body.rich THEN "metrics" ELSE @,
            !.suggestions = IF body.rich THEN <<"suggestion">> ELSE @,
            !.activeTab = IF body.rich THEN "suggestions" ELSE @,
            !.complianceInfo = IF body.rich THEN "compliance" ELSE @,
            !.isGenerating = FALSE]

CardJsonSettles(i, body) ==
  /\ i \in DOMAIN cardCalls
  /\ cardCalls[i].at = "json"
  /\ cardCalls' = Remove(cardCalls, i)
  /\ IF ~body.json THEN CardFailed(card, ErrSyntax)
     ELSE IF body.success
     THEN card' = CardCompleted(card, body) /\ toast' = ToastCardGenerated
     ELSE CardFailed(card, OrElse(body.error, ErrGenerationFailed))
  /\ UNCHANGED <<svars, state, lastGenerationRef, calls, mounted>>

\* ====================================================== parseMSBTEContent
\* The text the parser reads is a sequence of tokens:
\*   a marker name m  the header "## m"
\*   "##"             two hashes that begin no marker header
\*   "NL", "SP"       a newline, a blank
\*   "w"              a word of letters
\*   "-"              a word that holds a bullet or a hyphen
\*   "a)"             a lowercase letter and a closing parenthesis
\*   ":"              a word that holds a colon
MaxSections == 2

Markers ==
  <<"ANNEXURE_I_AIMS", "ANNEXURE_I_COURSE_OUTCOME", "ANNEXURE_I_METHODOLOGY",
    "ANNEXURE_II_RATIONALE", "ANNEXURE_II_AIMS", "ANNEXURE_II_COURSE_OUTCOME",
    "ANNEXURE_II_LITERATURE", "ANNEXURE_II_METHODOLOGY", "ANNEXURE_II_SKILLS",
    "ANNEXURE_II_APPLICATIONS">>

MarkerSet == {Markers[i] : i \in DOMAIN Markers}

Hashes(t) == t \in MarkerSet \cup {"##"}

Space(t) == t \in {"NL", "SP"}

Least(S) == CHOOSE x \in S : \A y \in S : x <= y

Greatest(S) == CHOOSE x \in S : \A y \in S : x >= y

\* the last index of the run of whitespace that starts at i, i - 1 if none
RECURSIVE RunEnd(_, _)
RunEnd(s, i) == IF i <= Len(s) /\ Space(s[i]) THEN RunEnd(s, i + 1) ELSE i - 1

\* \s*\n after the header at i: the index of the newline matched, 0 if the
\* expression fails there
HeaderEnd(s, i) ==
  LET nls == {n \in (i + 1)..RunEnd(s, i + 1) : s[n] = "NL"}
  IN IF nls = {} THEN 0 ELSE Greatest(nls)

\* (?=##|$): the first index from i on where two hashes begin, or the end
RECURSIVE NextHashes(_, _)
NextHashes(s, i) == IF i > Len(s) \/ Hashes(s[i]) THEN i ELSE NextHashes(s, i + 1)

\* String.prototype.trim
Trim(s) ==
  LET ink == {i \in DOMAIN s : ~Space(s[i])}
  IN IF ink = {} THEN <<>> ELSE SubSeq(s, Least(ink), Greatest(ink))

extractSection_ToEnd(content, marker) ==
  LET starts == {i \in DOMAIN content : content[i] = marker /\ HeaderEnd(content, i) # 0}
  IN IF starts = {} THEN <<>>
     ELSE Trim(SubSeq(content, HeaderEnd(content, Least(starts)) + 1, Len(content)))

extractSection(content, marker) ==
  LET starts == {i \in DOMAIN content : content[i] = marker /\ HeaderEnd(content, i) # 0}
  IN IF starts = {} THEN <<>>
     ELSE LET b == HeaderEnd(content, Least(starts)) + 1
          IN Trim(SubSeq(content, b, NextHashes(content, b) - 1))

\* split('\n')
RECURSIVE Lines(_)
Lines(s) ==
  LET nls == {i \in DOMAIN s : s[i] = "NL"}
  IN IF nls = {} THEN <<s>>
     ELSE <<SubSeq(s, 1, Least(nls) - 1)>> \o Lines(SubSeq(s, Least(nls) + 1, Len(s)))

Trimmed(lines) == [i \in DOMAIN lines |-> Trim(lines[i])]

NotBlank(line) == Trim(line) # <<>>

Bullet(line) == \E i \in DOMAIN line : line[i] = "-"

Lettered(line) == Len(line) >= 1 /\ line[1] = "a)"

Colon_Never(line) == FALSE

Colon(line) == \E i \in DOMAIN line : line[i] = ":"

parseMSBTEContent(content) ==
  LET litLines == SelectSeq(Lines(extractSection(content, "ANNEXURE_II_LITERATURE")), NotBlank)
      All(marker) == Trimmed(SelectSeq(Lines(extractSection(content, marker)), NotBlank))
      Bullets(marker) ==
        Trimmed(SelectSeq(Lines(extractSection(content, marker)),
                          LAMBDA line : NotBlank(line) /\ Bullet(line)))
  IN [annexure1 |->
        [aims |-> extractSection(content, "ANNEXURE_I_AIMS"),
         courseOutcome |-> All("ANNEXURE_I_COURSE_OUTCOME"),
         methodology |-> extractSection(content, "ANNEXURE_I_METHODOLOGY")],
      annexure2 |->
        [rationale |-> extractSection(content, "ANNEXURE_II_RATIONALE"),
         aims |-> Trimmed(SelectSeq(Lines(extractSection(content, "ANNEXURE_II_AIMS")),
                                    LAMBDA line : NotBlank(line) /\ (Bullet(line) \/ Lettered(line)))),
         courseOutcome |-> All("ANNEXURE_II_COURSE_OUTCOME"),
         literatureIntro |-> IF litLines = <<>> THEN <<>> ELSE litLines[1],
         literaturePoints |-> Trimmed(SelectSeq(IF litLines = <<>> THEN <<>> ELSE Tail(litLines),
                                                LAMBDA line : Bullet(line) \/ Colon(line))),
         methodology |-> extractSection(content, "ANNEXURE_II_METHODOLOGY"),
         skills |-> Bullets("ANNEXURE_II_SKILLS"),
         applications |-> Bullets("ANNEXURE_II_APPLICATIONS")]]

\* ---- the texts the parser is applied to
\* the content of a section that the text lacks
Absent == <<"absent">>

\* contents as the prompt asks for them, and contents that are empty, padded
\* with blanks and blank lines, or hold two hashes
SectionContents ==
  {<<>>,
   <<"w">>,
   <<"-", "NL", "-">>,
   <<"w", "NL", "-", "SP", "w", "NL", ":">>,
   <<"SP", "w", "NL", "NL", "a)", "SP">>,
   <<"w", "##", "w">>}

\* the content the prompt asks for under the marker of index i
DefaultContent(i) ==
  IF i \in {3, 4, 8} THEN <<"w", "NL", "NL", "w">>
  ELSE IF i \in {2, 6} THEN <<"a)", "w", "NL", "a)", "w">>
  ELSE IF i = 7 THEN <<"w", "NL", "-", "w", "NL", "w", ":", "w">>
  ELSE <<"-", "w", "NL", "-", "w">>

\* "## MARKER", a newline, the content, a newline
Section(marker, content) == <<marker, "NL">> \o content \o <<"NL">>

RECURSIVE RenderFrom(_, _)
RenderFrom(sections, i) ==
  IF i > Len(Markers) THEN <<>>
  ELSE (IF sections[i] = Absent THEN <<>> ELSE Section(Markers[i], sections[i]))
         \o RenderFrom(sections, i + 1)

Written(sections) == [sections |-> sections, text |-> RenderFrom(sections, 1)]

FewMarkers == {P \in SUBSET DOMAIN Markers : Cardinality(P) <= MaxSections}

\* texts with at most MaxSections of the ten sections
PartialTexts ==
  UNION {{Written([i \in DOMAIN Markers |-> IF i \in P THEN f[i] ELSE Absent]) :
             f \in [P -> SectionContents]} : P \in FewMarkers}

\* texts with the ten sections, at most MaxSections of them not as the
\* prompt asks
FullTexts ==
  UNION {{Written([i \in DOMAIN Markers |-> IF i \in P THEN f[i] ELSE DefaultContent(i)]) :
             f \in [P -> SectionContents]} : P \in FewMarkers}

InitParser ==
  /\ applied = "none"
  /\ argument \in PartialTexts \cup FullTexts
  /\ result = NoValue

\* parseMSBTEContent(content)
ParseMSBTEContent ==
  /\ applied = "none"
  /\ applied' = "parseMSBTEContent"
  /\ result' = parseMSBTEContent(argument.text)
  /\ UNCHANGED <<argument, variant, pc, req, outbound, pending, replies, aiContent,
                 validatedContent, complianceCheck, finalContent, parserInput,
                 stageLog, response, hvars, cvars>>

\* --------------------------------------------- the two clients, scheduled
MaxLiveCalls == 2

\* arguments of generateProject: complete ones and ones without a file
LiveArguments ==
  {args \in Arguments : args[2] = CompleteData("IoT") /\ args[3] = NoFileAnalysis}

\* the next awaited promise of the hook's invocation k settles
SettleCall(k) ==
  \E i \in DOMAIN calls :
    /\ calls[i].id = k
    /\ \/ \E loaded \in BOOLEAN : ReadSettles(i, loaded)
       \/ \E resolved \in BOOLEAN, ok \in BOOLEAN : FetchSettles(i, resolved, ok)
       \/ \E body \in ErrorBodies : TextSettles(i, body)
       \/ \E body \in OkBodies : JsonSettles(i, body)

\* the next awaited promise of the card's invocation settles
CardSettle ==
  \E i \in DOMAIN cardCalls :
    \/ \E loaded \in BOOLEAN : CardReadSettles(i, loaded)
    \/ \E resolved \in BOOLEAN, ok \in BOOLEAN : CardFetchSettles(i, resolved, ok)
    \/ \E body \in ErrorBodies : CardTextSettles(i, body)
    \/ \E body \in OkBodies : CardJsonSettles(i, body)

FormValues(field) == {"", CompleteData("IoT")[field]}

NextLive ==
  \/ mounted = "hook" /\ GenerateProject(MaxLiveCalls, LiveArguments)
  \/ mounted = "hook" /\ \E i \in DOMAIN calls, loaded \in BOOLEAN : ReadSettles(i, loaded)
  \/ mounted = "hook" /\ \E i \in DOMAIN calls, resolved \in BOOLEAN, ok \in BOOLEAN :
                           FetchSettles(i, resolved, ok)
  \/ mounted = "hook" /\ \E i \in DOMAIN calls, body \in ErrorBodies : TextSettles(i, body)
  \/ mounted = "hook" /\ \E i \in DOMAIN calls, body \in OkBodies : JsonSettles(i, body)
  \/ mounted = "hook" /\ ResetGeneration
  \/ \E file \in Files : SetSelectedFile(file)
  \/ \E field \in RequiredFields : \E value \in FormValues(field) : handleFormChange(field, value)
  \/ handleGenerate
  \/ \E i \in DOMAIN cardCalls, loaded \in BOOLEAN : CardReadSettles(i, loaded)
  \/ \E i \in DOMAIN cardCalls, resolved \in BOOLEAN, ok \in BOOLEAN : CardFetchSettles(i, resolved, ok)
  \/ \E i \in DOMAIN cardCalls, body \in ErrorBodies : CardTextSettles(i, body)
  \/ \E i \in DOMAIN cardCalls, body \in OkBodies : CardJsonSettles(i, body)

\* the event loop runs the continuation of every promise that settled, and
\* file reads and requests settle
Fairness ==
  /\ \A k \in 1..MaxLiveCalls : WF_vars(SettleCall(k))
  /\ WF_vars(CardSettle)

\* ------------------------------------------------------- specifications
NextServer ==
  \/ \E r \in Requests : Serve(r)
  \/ \E r \in TextReplies : AIReply(r)
  \/ \E r \in TextReplies : Stage1Reply(r)
  \/ \E r \in TextReplies : Stage2Reply(r)
  \/ \E r \in AnalysisReplies : Stage3Reply(r)
  \/ Finish

InitEndpoint == InitServer /\ InitHook /\ InitCard /\ mounted = "hook"

SpecServer == InitEndpoint /\ [][NextServer]_vars

InitClient == InitServer /\ variant = "enhanced" /\ InitHook /\ InitCard /\ mounted = "hook"

SpecHook == InitClient /\ [][NextHook]_vars

SpecRetry == InitClient /\ [][NextRetry]_vars

InitLive ==
  InitServer /\ variant = "enhanced" /\ InitHook /\ InitCard /\ mounted \in {"hook", "card"}

SpecLive == InitLive /\ [][NextLive]_vars /\ Fairness

\* the hook, the card and the request handler at rest
InitRest == InitHandler /\ variant = "enhanced" /\ InitHook /\ InitCard /\ mounted = "hook"

InitParsing == InitRest /\ InitParser

SpecParser == InitParsing /\ [][ParseMSBTEContent]_vars

\* ------------------------------------------------------------- extraction
\* The bytes of a reference file are sequences of tokens:
\*   "#"   a byte that no pattern of the extractors matches
\*   "w"   a word in lower case, outside every tag
\*   "W"   a word in upper case
\*   "1."  a number, a dot and a blank
\*   "NL"  a newline
\*   "wt"  the text run <w:t>w</w:t>
\*   "hd"  the style marker <w:pStyle w:val="Heading1"/>
\*   "at"  the text run <a:t>w</a:t>
\*   "ph"  the title placeholder <p:ph type="title"/>
\* and "SP" is the blank that join(' ') writes.
MaxBytes == 3

PlaceholderPDF == <<"No text extracted from PDF">>
PlaceholderXML == <<"No text extracted">>

Vocabulary(mimeType) ==
  IF mimeType = PDF THEN {"#", "w", "W", "1.", "NL"}
  ELSE IF mimeType = DOCX THEN {"#", "w", "NL", "wt", "hd"}
  ELSE {"#", "w", "NL", "at", "ph"}

Bytes(mimeType) == UNION {[1..n -> Vocabulary(mimeType)] : n \in 0..MaxBytes}

\* fileContent: a base64 payload, written as the bytes it encodes, after a
\* data-URL header or bare
FileContents(mimeType) == [header : BOOLEAN, bytes : Bytes(mimeType)]

\* atob(base64Content.split(',')[1] || base64Content): an empty payload after
\* a header makes atob read the header, which is not base64
Decodes(base64Content) == ~(base64Content.header /\ base64Content.bytes = <<>>)

RECURSIVE JoinWith(_, _)
JoinWith(parts, sep) ==
  IF parts = <<>> THEN <<>>
  ELSE IF Len(parts) = 1 THEN parts[1]
  ELSE parts[1] \o <<sep>> \o JoinWith(Tail(parts), sep)

\* content.match(/[A-Za-z0-9\s.,;:!?()-]+/g): the maximal runs without "#"
RECURSIVE PrintableRuns(_)
PrintableRuns(content) ==
  LET stops == {i \in DOMAIN content : content[i] = "#"}
  IN IF stops = {}
     THEN (IF content = <<>> THEN <<>> ELSE <<content>>)
     ELSE (IF Least(stops) = 1 THEN <<>> ELSE <<SubSeq(content, 1, Least(stops) - 1)>>)
            \o PrintableRuns(SubSeq(content, Least(stops) + 1, Len(content)))

\* trimmed === trimmed.toUpperCase()
UpperCase_AnyLine(line) == TRUE

UpperCase(line) == \A i \in DOMAIN line : line[i] \notin {"w"} \cup {PlaceholderPDF[1]}

RECURSIVE SkipBlanks(_, _)
SkipBlanks(line, i) == IF i <= Len(line) /\ Space(line[i]) THEN SkipBlanks(line, i + 1) ELSE i

\* /^\d+\.?\s+[A-Z]/
Numbered(line) ==
  /\ line # <<>> /\ line[1] = "1."
  /\ SkipBlanks(line, 2) <= Len(line) /\ line[SkipBlanks(line, 2)] = "W"

\* the line is a heading; lines of the model are shorter than 100 characters
Heading(line) == line # <<>> /\ (UpperCase(line) \/ Numbered(line))

\* /^\d+\.?\s/: the blank of a last "1." has been trimmed
PDFSection(line) ==
  [title |-> line, level |-> IF line[1] = "1." /\ Len(line) >= 2 THEN 1 ELSE 2, fontSize |-> 28]

\* substring(0, 10000) keeps the texts of the model whole; no text of the
\* model holds the word "contents"
extractFromPDF(content) ==
  LET textMatch == PrintableRuns(content)
      text == IF textMatch # <<>> THEN JoinWith(textMatch, "SP") ELSE PlaceholderPDF
      trimmed == Trimmed(Lines(text))
      headings == SelectSeq(trimmed, Heading)
  IN [thrown |-> FALSE, text |-> text,
      structure |-> [sections |-> [i \in DOMAIN headings |-> PDFSection(headings[i])],
                     defaultFontSize |-> 24, hasTableOfContents |-> FALSE]]

\* the text runs <w:t>..</w:t> or <a:t>..</a:t> with their tags removed
RunTexts(content, run) ==
  LET runs == SelectSeq(content, LAMBDA t : t = run)
  IN [i \in DOMAIN runs |-> <<"w">>]

\* matchAll of mark.*?run: every mark pairs with the first run after it, and
\* the search resumes behind that run
RECURSIVE Titles(_, _, _, _, _)
Titles(content, i, open, mark, run) ==
  IF i > Len(content) THEN <<>>
  ELSE IF content[i] = run /\ open THEN <<<<"w">>>> \o Titles(content, i + 1, FALSE, mark, run)
  ELSE Titles(content, i + 1, open \/ content[i] = mark, mark, run)

\* no byte of the model is a font size <w:sz/> or the text TOC
extractFromDOCX(content) ==
  LET textMatch == RunTexts(content, "wt")
      titles == Titles(content, 1, FALSE, "hd", "wt")
  IN [thrown |-> FALSE,
      text |-> IF textMatch # <<>> THEN JoinWith(textMatch, "SP") ELSE PlaceholderXML,
      structure |-> [sections |-> [i \in DOMAIN titles |->
                                     [title |-> titles[i], level |-> 1, fontSize |-> 32 - 1 * 4]],
                     defaultFontSize |-> 24, hasTableOfContents |-> FALSE]]

extractFromPPTX(content) ==
  LET textMatch == RunTexts(content, "at")
      titles == Titles(content, 1, FALSE, "ph", "at")
  IN [thrown |-> FALSE,
      text |-> IF textMatch # <<>> THEN JoinWith(textMatch, "SP") ELSE PlaceholderXML,
      structure |-> [sections |-> [i \in DOMAIN titles |->
                                     [title |-> titles[i], level |-> 1, fontSize |-> 32]],
                     defaultFontSize |-> 24, hasTableOfContents |-> FALSE]]

\* atob threw
Thrown ==
  [thrown |-> TRUE, text |-> <<>>,
   structure |-> [sections |-> <<>>, defaultFontSize |-> 0, hasTableOfContents |-> FALSE]]

InitExtraction ==
  /\ InitRest
  /\ applied = "none"
  /\ argument \in UNION {[fileType : {mimeType}, fileContent : FileContents(mimeType)] :
                            mimeType \in {PDF, DOCX, PPTX}}
  /\ result = NoValue

Extracted(name, extracted) ==
  /\ applied = "none"
  /\ applied' = name
  /\ result' = IF Decodes(argument.fileContent) THEN extracted ELSE Thrown
  /\ UNCHANGED <<argument, variant, pc, req, outbound, pending, replies, aiContent,
                 validatedContent, complianceCheck, finalContent, parserInput,
                 stageLog, response, hvars, cvars>>

ExtractFromPDF ==
  /\ argument.fileType = PDF
  /\ Extracted("extractFromPDF", extractFromPDF(argument.fileContent.bytes))

ExtractFromDOCX ==
  /\ argument.fileType = DOCX
  /\ Extracted("extractFromDOCX", extractFromDOCX(argument.fileContent.bytes))

ExtractFromPPTX ==
  /\ argument.fileType = PPTX
  /\ Extracted("extractFromPPTX", extractFromPPTX(argument.fileContent.bytes))

NextExtraction == ExtractFromPDF \/ ExtractFromDOCX \/ ExtractFromPPTX

SpecExtraction == InitExtraction /\ [][NextExtraction]_vars

\* ------------------------------------------------- stage 4 on its own
MaxFormatLen == 4

FormatTexts == UNION {[1..n -> Tok] : n \in 0..MaxFormatLen}

\* compliance checks on either side of the two thresholds
FormatChecks ==
  {[DefaultCompliance EXCEPT !.complianceScore = cs, !.qualityScore = qs] :
      cs \in {79, 80}, qs \in {84, 85}}

InitFormatting ==
  /\ InitRest
  /\ applied = "none"
  /\ argument \in [content : FormatTexts, complianceCheck : FormatChecks]
  /\ result = NoValue

\* applyFinalFormatting(content, complianceCheck)
ApplyFinalFormatting ==
  /\ applied = "none"
  /\ applied' = "applyFinalFormatting"
  /\ result' = [once |-> applyFinalFormatting(argument.content, argument.complianceCheck),
                twice |-> NoText]
  /\ UNCHANGED <<argument, variant, pc, req, outbound, pending, replies, aiContent,
                 validatedContent, complianceCheck, finalContent, parserInput,
                 stageLog, response, hvars, cvars>>

\* applyFinalFormatting(finalContent, complianceCheck), on the text returned
ApplyFinalFormattingAgain ==
  /\ applied = "applyFinalFormatting"
  /\ applied' = "applyFinalFormatting twice"
  /\ result' = [result EXCEPT !.twice = applyFinalFormatting(result.once, argument.complianceCheck)]
  /\ UNCHANGED <<argument, variant, pc, req, outbound, pending, replies, aiContent,
                 validatedContent, complianceCheck, finalContent, parserInput,
                 stageLog, response, hvars, cvars>>

NextFormatting == ApplyFinalFormatting \/ ApplyFinalFormattingAgain

SpecFormatting == InitFormatting /\ [][NextFormatting]_vars

\* -------------------------------------------- generations that overlap
MaxOverlap == 2

\* complete arguments, with and without a file analysis
OverlapArguments ==
  {args \in Arguments : args[1] # NoFile /\ args[2] = CompleteData("IoT")}

NextOverlap ==
  \/ GenerateProject(MaxOverlap, OverlapArguments)
  \/ Settle

SpecOverlap == InitClient /\ [][NextOverlap]_vars

\* ------------------------------------------- one generation at a time
\* generateProject and retryGeneration are called only when no invocation is
\* in flight, and nothing else is called
NextSolo ==
  \/ RetryGeneration(1)
  \/ GenerateProject(1, Arguments)
  \/ Settle

SpecSolo == InitClient /\ [][NextSolo]_vars

\* ------------------------------------ generation, enhancement and reset
MaxSessionCalls == 1

ErrNoContent == "No project content available for enhancement"
ToastEnhanced == "Content enhanced successfully!"

EnhancementTypes == {"technical_depth", "msbte_compliance"}

\* toast.info(`Enhancing content: ${enhancementType}`)
ToastEnhancing(enhancementType) ==
  IF enhancementType = "technical_depth"
  THEN "Enhancing content: technical_depth"
  ELSE "Enhancing content: msbte_compliance"

\* enhanceContent up to the await of its three-second timer; the invocation
\* waits among the invocations in flight with at = "timer"
EnhanceContent(max) ==
  \E enhancementType \in EnhancementTypes :
    /\ UNCHANGED <<lastGenerationRef, svars, cvars>>
    /\ IF state.generatedContent = Null \/ ~lastGenerationRef.set
       THEN /\ toast' = ErrNoContent
            /\ UNCHANGED <<state, calls>>
       ELSE /\ Len(calls) < max
            /\ state' = Merge(state, [isLoading |-> TRUE, currentStage |-> "enhancing"])
            /\ toast' = ToastEnhancing(enhancementType)
            /\ calls' = Insert(calls, [NewCall(calls, lastGenerationRef.file,
                                                lastGenerationRef.projectData,
                                                lastGenerationRef.fileAnalysis,
                                                "component") EXCEPT !.at = "timer"])

\* the timer of an enhanceContent invocation fires
EnhanceSettles ==
  \E i \in DOMAIN calls :
    /\ calls[i].at = "timer"
    /\ state' = Merge(state, [isLoading |-> FALSE, currentStage |-> "completed"])
    /\ toast' = ToastEnhanced
    /\ calls' = Remove(calls, i)
    /\ UNCHANGED <<lastGenerationRef, svars, cvars>>

NextSession ==
  \/ GenerateProject(MaxSessionCalls, LiveArguments)
  \/ RetryGeneration(MaxSessionCalls)
  \/ Settle
  \/ EnhanceContent(MaxSessionCalls)
  \/ EnhanceSettles
  \/ ResetGeneration

SpecSession == InitClient /\ [][NextSession]_vars

\* ------------------------- generateProject, one statement at a time
\* One invocation of generateProject runs statement by statement; `line` is
\* the source line of the statement it executes next.  updateStage and
\* updateProgress are also called by the component, between invocations.
ProgressArguments == {-5, 0, 55, 100, 150, NaN}

Stages == {"idle", "analyzing", "generating", "enhancing", "completed"}

NoData == [json |-> FALSE, success |-> FALSE, error |-> "", text |-> "", content |-> Null, rich |-> FALSE]

\* the invocation, about to store its inputs
Invocation(file, projectData, fileAnalysis) ==
  [line |-> 126, file |-> file, projectData |-> projectData, fileAnalysis |-> fileAnalysis,
   ok |-> FALSE, data |-> NoData]

Running == calls # <<>>

\* the statements that only update the state: the update, and the next line
UpdateLines == {129, 130, 138, 141, 142, 146, 166, 179, 196, 198}

UpdateAt(line) ==
  CASE line = 129 -> [currentStage |-> "analyzing"]
    [] line = 130 -> [progress |-> Clamp(10)]
    [] line = 138 -> [progress |-> Clamp(20)]
    [] line = 141 -> [currentStage |-> "generating"]
    [] line = 142 -> [progress |-> Clamp(30)]
    [] line = 146 -> [progress |-> Clamp(50)]
    [] line = 166 -> [progress |-> Clamp(60)]
    [] line = 179 -> [progress |-> Clamp(80)]
    [] line = 196 -> [currentStage |-> "enhancing"]
    [] line = 198 -> [progress |-> Clamp(90)]

After(line) ==
  CASE line = 129 -> 130
    [] line = 130 -> 133
    [] line = 138 -> 141
    [] line = 141 -> 142
    [] line = 142 -> 145
    [] line = 146 -> 166
    [] line = 166 -> 171
    [] line = 179 -> 181
    [] line = 196 -> 197
    [] line = 198 -> 200

\* the catch block: the invocation ends
Catch(msg) ==
  /\ state' = Failed(state, msg)
  /\ toast' = msg
  /\ calls' = <<>>

\* the component calls generateProject: the reset of lines 114-123
StartGeneration ==
  \E args \in LiveArguments :
    /\ ~Running
    /\ state' = Started(state)
    /\ calls' = <<Invocation(args[1], args[2], args[3])>>
    /\ UNCHANGED <<lastGenerationRef, toast, svars, cvars>>

StoreInputs ==
  /\ Running /\ calls[1].line = 126
  /\ lastGenerationRef' = Stored(calls[1].file, calls[1].projectData, calls[1].fileAnalysis)
  /\ calls' = [calls EXCEPT ![1].line = 129]
  /\ UNCHANGED <<state, toast, svars, cvars>>

Statement ==
  /\ Running /\ calls[1].line \in UpdateLines
  /\ state' = Merge(state, UpdateAt(calls[1].line))
  /\ calls' = [calls EXCEPT ![1].line = After(calls[1].line)]
  /\ UNCHANGED <<lastGenerationRef, toast, svars, cvars>>

Validate ==
  /\ Running /\ calls[1].line = 133
  /\ IF ValidInputs(calls[1].file, calls[1].projectData)
     THEN calls' = [calls EXCEPT ![1].line = 138] /\ UNCHANGED <<state, toast>>
     ELSE Catch(ErrMissing)
  /\ UNCHANGED <<lastGenerationRef, svars, cvars>>

ReadResolves ==
  \E loaded \in BOOLEAN :
    /\ Running /\ calls[1].line = 145
    /\ IF loaded
       THEN calls' = [calls EXCEPT ![1].line = 146] /\ UNCHANGED <<state, toast>>
       ELSE Catch(ErrDefault)
    /\ UNCHANGED <<lastGenerationRef, svars, cvars>>

FetchResolves ==
  \E resolved \in BOOLEAN, ok \in BOOLEAN :
    /\ Running /\ calls[1].line = 171
    /\ IF resolved
       THEN calls' = [calls EXCEPT ![1].line = 179, ![1].ok = ok] /\ UNCHANGED <<state, toast>>
       ELSE Catch(ErrNetwork)
    /\ UNCHANGED <<lastGenerationRef, svars, cvars>>

CheckOk ==
  /\ Running /\ calls[1].line = 181
  /\ calls' = [calls EXCEPT ![1].line = IF calls[1].ok THEN 196 ELSE 182]
  /\ UNCHANGED <<state, lastGenerationRef, toast, svars, cvars>>

TextResolves ==
  \E body \in ErrorBodies :
    /\ Running /\ calls[1].line = 182
    /\ Catch(NotOkMessage(body))
    /\ UNCHANGED <<lastGenerationRef, svars, cvars>>

JsonResolves ==
  \E body \in OkBodies :
    /\ Running /\ calls[1].line = 197
    /\ IF body.json
       THEN calls' = [calls EXCEPT ![1].line = 198, ![1].data = body] /\ UNCHANGED <<state, toast>>
       ELSE Catch(ErrSyntax)
    /\ UNCHANGED <<lastGenerationRef, svars, cvars>>

CheckSuccess ==
  /\ Running /\ calls[1].line = 200
  /\ IF calls[1].data.success
     THEN /\ state' = Completed(state, calls[1].data)
          /\ toast' = ToastGenerated
          /\ calls' = <<>>
     ELSE Catch(OrElse(calls[1].data.error, ErrGenerationFailed))
  /\ UNCHANGED <<lastGenerationRef, svars, cvars>>

UpdateStage ==
  \E stage \in Stages :
    /\ ~Running
    /\ state' = Merge(state, [currentStage |-> stage])
    /\ UNCHANGED <<lastGenerationRef, calls, toast, svars, cvars>>

UpdateProgress ==
  \E progress \in ProgressArguments :
    /\ ~Running
    /\ state' = Merge(state, [progress |-> Clamp(progress)])
    /\ UNCHANGED <<lastGenerationRef, calls, toast, svars, cvars>>

NextProgress ==
  \/ StartGeneration
  \/ StoreInputs
  \/ Statement
  \/ Validate
  \/ ReadResolves
  \/ FetchResolves
  \/ CheckOk
  \/ TextResolves
  \/ JsonResolves
  \/ CheckSuccess
  \/ UpdateStage
  \/ UpdateProgress

SpecProgress == InitClient /\ [][NextProgress]_vars

\* ========================================================= MSBTEValidator
\* A document is the sequence of its sections.  A section has the marker of
\* its '## ...' header line, the lettering of that line as written ("upper"
\* is the lettering of MSBTE_SECTIONS), the number of words of its trimmed
\* body (sectionContent.split(/\s+/).length, 0 for an empty body) and the
\* number of its lines that start with a bullet.  Beside the sections the
\* document has what the checks on the whole text look at.
MaxVaried == 3

MSBTE_SECTIONS == Markers

Requirement(id, section, weight, minWordCount, minBulletPoints) ==
  [id |-> id, section |-> section, required |-> TRUE, weight |-> weight,
   minWordCount |-> minWordCount, minBulletPoints |-> minBulletPoints]

initializeRequirements ==
  <<Requirement("annexure_i_aims", "ANNEXURE_I_AIMS", 10, 50, 2),
    Requirement("annexure_i_course_outcome", "ANNEXURE_I_COURSE_OUTCOME", 10, 100, 2),
    Requirement("annexure_i_methodology", "ANNEXURE_I_METHODOLOGY", 10, 80, 1),
    Requirement("annexure_ii_rationale", "ANNEXURE_II_RATIONALE", 8, 40, 1),
    Requirement("annexure_ii_aims", "ANNEXURE_II_AIMS", 8, 120, 3),
    Requirement("annexure_ii_course_outcome", "ANNEXURE_II_COURSE_OUTCOME", 8, 100, 2),
    Requirement("annexure_ii_literature", "ANNEXURE_II_LITERATURE", 12, 200, 4),
    Requirement("annexure_ii_methodology", "ANNEXURE_II_METHODOLOGY", 12, 120, 2),
    Requirement("annexure_ii_skills", "ANNEXURE_II_SKILLS", 8, 100, 4),
    Requirement("annexure_ii_applications", "ANNEXURE_II_APPLICATIONS", 8, 100, 4)>>

\* bodies: one that meets every requirement, one that meets the modest
\* ones, one that meets none
Bodies ==
  {[words |-> 200, bullets |-> 4], [words |-> 100, bullets |-> 2], [words |-> 39, bullets |-> 0]}

NoSection == [marker |-> "", lettering |-> "upper", words |-> 0, bullets |-> 0]

SectionKinds ==
  {NoSection} \cup
  {[marker |-> "", lettering |-> l, words |-> b.words, bullets |-> b.bullets] :
     l \in {"upper", "lower"}, b \in Bodies}

\* the sections written for the markers: any kind for the first MaxVaried
\* markers, and for the others all complete or all absent
Layouts ==
  {[i \in DOMAIN Markers |-> IF i <= MaxVaried THEN first[i] ELSE rest] :
     first \in [1..MaxVaried -> SectionKinds],
     rest \in {NoSection, [marker |-> "", lettering |-> "upper", words |-> 200, bullets |-> 4]}}

RECURSIVE Laid(_, _)
Laid(layout, i) ==
  IF i > Len(Markers) THEN <<>>
  ELSE IF layout[i] = NoSection THEN Laid(layout, i + 1)
  ELSE <<[layout[i] EXCEPT !.marker = Markers[i]]>> \o Laid(layout, i + 1)

\* what the checks on the whole text find in it
Wordings ==
  {[informalWords |-> FALSE, bulletStyles |-> 1, technicalTerms |-> 3, names |-> {"Asha Rao"}],
   [informalWords |-> TRUE, bulletStyles |-> 2, technicalTerms |-> 2, names |-> {}]}

Documents ==
  {[sections |-> Laid(layout, 1), wording |-> wording] :
     layout \in Layouts, wording \in Wordings}

StudentDatas == {CompleteData("IoT"), [CompleteData("IoT") EXCEPT !.name = ""]}

\* content.match(new RegExp(`## ${sectionMarker}\\s*\\n([\\s\\S]*?)(?=##|$)`, 'i')):
\* the first section whose header is the marker in any lettering
MSBTEValidator_extractSection(content, sectionMarker) ==
  LET found == {i \in DOMAIN content.sections : content.sections[i].marker = sectionMarker}
  IN IF found = {} THEN NoSection
     ELSE content.sections[CHOOSE i \in found : \A j \in found : i <= j]

validateSection(content, sectionMarker, minWordCount, minBulletPoints) ==
  LET sectionContent == MSBTEValidator_extractSection(content, sectionMarker)
  IN IF sectionContent = NoSection \/ sectionContent.words = 0 THEN FALSE
     ELSE sectionContent.words >= minWordCount /\ sectionContent.bullets >= minBulletPoints

\* content.includes(`## ${section}`): the header in the lettering of the list
Includes(content, section) ==
  \E i \in DOMAIN content.sections :
    content.sections[i].marker = section /\ content.sections[i].lettering = "upper"

Issue(id, type) == [id |-> id, type |-> type]

MissingSection(section) == <<"missing_section_", section>>

RECURSIVE MissingSections(_, _)
MissingSections(content, i) ==
  IF i > Len(MSBTE_SECTIONS) THEN <<>>
  ELSE (IF Includes(content, MSBTE_SECTIONS[i]) THEN <<>>
        ELSE <<Issue(MissingSection(MSBTE_SECTIONS[i]), "error")>>)
       \o MissingSections(content, i + 1)

validateBulletPoints(content) ==
  IF content.wording.bulletStyles > 1 THEN <<Issue(<<"inconsistent_bullets">>, "warning")>> ELSE <<>>

validateAcademicLanguage(content) ==
  IF content.wording.informalWords THEN <<Issue(<<"informal_language">>, "warning")>> ELSE <<>>

checkFormatRequirements(content) ==
  MissingSections(content, 1) \o validateBulletPoints(content) \o validateAcademicLanguage(content)

\* content.includes(studentData.name): the empty name is in every text
checkTechnicalRequirements(content, studentData) ==
  (IF studentData.name = "" \/ studentData.name \in content.wording.names THEN <<>>
   ELSE <<Issue(<<"missing_student_name">>, "warning")>>)
  \o (IF content.wording.technicalTerms < 3
      THEN <<Issue(<<"low_technical_depth">>, "warning")>> ELSE <<>>)

validator(requirement, content) ==
  validateSection(content, requirement.section, requirement.minWordCount,
                  requirement.minBulletPoints)

\* the loop over the requirements, from requirement i on
RECURSIVE Validated(_, _, _)
Validated(content, i, acc) ==
  IF i > Len(initializeRequirements) THEN acc
  ELSE LET requirement == initializeRequirements[i]
           isValid == validator(requirement, content)
           score == IF isValid THEN 100 ELSE 0
       IN Validated(content, i + 1,
            [totalScore |-> acc.totalScore + score * requirement.weight,
             totalWeight |-> acc.totalWeight + requirement.weight,
             sectionScores |-> acc.sectionScores \o <<score>>,
             issues |-> acc.issues \o
                        (IF ~isValid /\ requirement.required
                         THEN <<Issue(<<requirement.id>>, "error")>> ELSE <<>>)])

validateDocument(content, studentData) ==
  LET formatIssues == checkFormatRequirements(content)
      technicalIssues == checkTechnicalRequirements(content, studentData)
      done == Validated(content, 1,
                [totalScore |-> 0, totalWeight |-> 0, sectionScores |-> <<>>,
                 issues |-> formatIssues \o technicalIssues])
      overallCompliance == IF done.totalWeight > 0
                           THEN Round(done.totalScore, done.totalWeight) ELSE 0
  IN [isValid |-> \A i \in DOMAIN done.issues : done.issues[i].type # "error",
      score |-> overallCompliance,
      issues |-> done.issues,
      sectionScores |-> done.sectionScores,
      overallCompliance |-> overallCompliance]

InitValidator ==
  /\ InitRest
  /\ applied = "none"
  /\ argument \in [content : Documents, studentData : StudentDatas]
  /\ result = NoValue

ValidateDocument ==
  /\ applied = "none"
  /\ applied' = "validateDocument"
  /\ result' = validateDocument(argument.content, argument.studentData)
  /\ UNCHANGED <<argument, variant, pc, req, outbound, pending, replies, aiContent,
                 validatedContent, complianceCheck, finalContent, parserInput,
                 stageLog, response, hvars, cvars>>

SpecValidator == InitValidator /\ [][ValidateDocument]_vars

\* ======================================================== ContentEnhancer
\* An id is the sequence of its parts: 'technical_enhancement' is
\* <<"technical", "_enhancement">>.
MaxIdLen == 2

IdParts ==
  {"technical", "structure", "add", "academic", "msbte", "comprehensive",
   "_enhancement", "_improvement", "_examples", "_compliance"}

Ids == UNION {[1..n -> IdParts] : n \in 0..MaxIdLen}

EnhancementSuggestion(id, type, title, estimatedImpact, estimatedTime) ==
  [id |-> id, type |-> type, title |-> title, estimatedImpact |-> estimatedImpact,
   estimatedTime |-> estimatedTime, prerequisites |-> <<"existing_content">>]

\* the values of ENHANCEMENT_TYPES, in the order of its keys
ENHANCEMENT_TYPES ==
  <<EnhancementSuggestion(<<"technical", "_enhancement">>, "technical",
                          "Enhance Technical Content", "high", 30),
    EnhancementSuggestion(<<"structure", "_improvement">>, "structure",
                          "Improve Structure", "medium", 20),
    EnhancementSuggestion(<<"add", "_examples">>, "examples",
                          "Add Practical Examples", "high", 25),
    EnhancementSuggestion(<<"academic", "_enhancement">>, "academic",
                          "Enhance Academic Quality", "medium", 15),
    EnhancementSuggestion(<<"msbte", "_compliance">>, "compliance",
                          "Improve MSBTE Compliance", "high", 20),
    EnhancementSuggestion(<<"comprehensive", "_enhancement">>, "comprehensive",
                          "Comprehensive Enhancement", "high", 60)>>

\* the fields of a ContentEnhancer that the lookups can name
ContentEnhancer == [ENHANCEMENT_TYPES |-> ENHANCEMENT_TYPES]

\* this.name: <<the value>>, or <<>> for undefined when there is no such field
This(name) ==
  IF name \in DOMAIN ContentEnhancer THEN <<ContentEnhancer[name]>> ELSE <<>>

\* Object.values(object): a TypeError when the object is undefined
ObjectValues(object) ==
  IF object = <<>> THEN [thrown |-> TRUE, value |-> <<>>]
  ELSE [thrown |-> FALSE, value |-> object[1]]

\* values.find(enhancement => enhancement.id === id): <<>> for undefined
Find(values, id) ==
  LET found == {i \in DOMAIN values : values[i].id = id}
  IN IF found = {} THEN <<>>
     ELSE <<values[CHOOSE i \in found : \A j \in found : i <= j]>>

getAvailableEnhancements == ObjectValues(This("ENHANCEMENT_TYPES"))

getEnhancementById(id) ==
  LET values == ObjectValues(This("ENHTECTION_TYPES"))
  IN IF values.thrown THEN values
     ELSE [thrown |-> FALSE, value |-> Find(values.value, id)]

InitEnhancer ==
  /\ InitRest
  /\ applied = "none"
  /\ argument \in Ids
  /\ result = NoValue

GetAvailableEnhancements ==
  /\ applied = "none"
  /\ applied' = "getAvailableEnhancements"
  /\ result' = getAvailableEnhancements
  /\ UNCHANGED <<argument, variant, pc, req, outbound, pending, replies, aiContent,
                 validatedContent, complianceCheck, finalContent, parserInput,
                 stageLog, response, hvars, cvars>>

GetEnhancementById ==
  /\ applied = "none"
  /\ applied' = "getEnhancementById"
  /\ result' = getEnhancementById(argument)
  /\ UNCHANGED <<argument, variant, pc, req, outbound, pending, replies, aiContent,
                 validatedContent, complianceCheck, finalContent, parserInput,
                 stageLog, response, hvars, cvars>>

NextEnhancer == GetAvailableEnhancements \/ GetEnhancementById

SpecEnhancer == InitEnhancer /\ [][NextEnhancer]_vars

\* The client's first request is being served: one invocation awaits its
\* fetch and nothing else has happened on the client.
AwaitsFirstResponse ==
  /\ Len(calls) = 1
  /\ calls[1].at = "fetching"
  /\ calls[1].caller = "component"
  /\ toast = Null
  /\ lastGenerationRef = Stored(calls[1].file, calls[1].projectData, calls[1].fileAnalysis)

\* client and endpoint, one at a time: the endpoint handles requests while
\* the client awaits its first response, the client runs while the endpoint
\* is idle
NextSystem ==
  \/ pc = "idle" /\ RetryGeneration(MaxInFlight)
  \/ pc = "idle" /\ GenerateProject(MaxInFlight, {args \in Arguments : args[3] = NoFileAnalysis})
  \/ pc = "idle" /\ \E i \in DOMAIN calls, loaded \in BOOLEAN : ReadSettles(i, loaded)
  \/ pc = "idle" /\ \E i \in DOMAIN calls, resolved \in BOOLEAN, ok \in BOOLEAN :
                      FetchSettles(i, resolved, ok)
  \/ pc = "idle" /\ \E i \in DOMAIN calls, body \in ErrorBodies : TextSettles(i, body)
  \/ pc = "idle" /\ \E i \in DOMAIN calls, body \in OkBodies : JsonSettles(i, body)
  \/ pc = "idle" /\ ResetGeneration
  \/ AwaitsFirstResponse /\ \E r \in Requests : Serve(r)
  \/ AwaitsFirstResponse /\ \E r \in TextReplies : AIReply(r)
  \/ AwaitsFirstResponse /\ \E r \in TextReplies : Stage1Reply(r)
  \/ AwaitsFirstResponse /\ \E r \in TextReplies : Stage2Reply(r)
  \/ AwaitsFirstResponse /\ \E r \in AnalysisReplies : Stage3Reply(r)
  \/ AwaitsFirstResponse /\ Finish

SpecSystem == InitEndpoint /\ [][NextSystem]_vars

\* ------------------------------------------------- claims on the endpoint
Enhanced == variant = "enhanced"

Answered == pc = "done" /\ req.method = "POST"

\* the call of stage k failed: transport error, non-2xx status, or a body
\* without choices
StageFailed(k) == Len(replies) >= k /\ ~ReplyUsable(replies[k])

\* the call of stage k returned a text
StageSucceeded(k) == Len(replies) >= k /\ ReplyHasText(replies[k])

StageNames(log) == [i \in 1..Len(log) |-> log[i].stage]

\* C2: in the multi-stage endpoint, when the stage-2 or the stage-3 call
\* failed, the section parser receives exactly the stage-1 text and the
\* request still succeeds.
C2_DegradeKeepsStage1Text ==
  (Enhanced /\ Answered /\ StageSucceeded(1) /\ (StageFailed(2) \/ StageFailed(3)))
    => (response.success = "true" /\ parserInput = aiContent)

\* C3: when the generation-service call of a request returned HTTP 429, the
\* response has status 429, success false, the rate-limit message and no
\* document.
C3_RateLimitedResponse ==
  (Answered /\ Len(replies) >= 1 /\ replies[1].status = 429)
    => (/\ response.status = 429
        /\ response.success = "false"
        /\ response.error = ErrRate
        /\ response.content = Null)

\* The four failure kinds of the generation client and the reply or request
\* that produces each.
Causes == {"RateLimited", "QuotaExceeded", "UpstreamError", "MissingCredential"}

CauseStatus(c) ==
  IF c = "RateLimited" THEN 429 ELSE IF c = "QuotaExceeded" THEN 402 ELSE 500

CauseResponse(v, c) ==
  IF c = "MissingCredential" THEN ErrorResponse(ErrNoKey)
  ELSE GenerationFailure(v, [status |-> CauseStatus(c), choices |-> FALSE,
                             content |-> FALSE, body |-> <<>>])

FailureCause ==
  IF ~Answered THEN "none"
  ELSE IF response.error = ErrNoKey /\ ~req.apiKey THEN "MissingCredential"
  ELSE IF Len(replies) = 1 /\ replies[1].status = 429 THEN "RateLimited"
  ELSE IF Len(replies) = 1 /\ replies[1].status = 402 THEN "QuotaExceeded"
  ELSE IF Len(replies) = 1 /\ replies[1].status = 500 THEN "UpstreamError"
  ELSE "none"

Signature(r) == <<r.status, r.error>>

\* C4: the response to a request that failed for one of the four causes
\* differs (in status or error message) from the response the endpoint
\* gives for each of the other three causes.
C4_FailureKindsDistinguishable ==
  FailureCause \in Causes
    => \A c \in Causes \ {FailureCause} :
          Signature(CauseResponse(variant, c)) # Signature(response)

\* C5: in the multi-stage endpoint a failed stage-1 call (non-2xx status,
\* transport error, reply without choices) ends the request with a non-200
\* response, success false, an error message and no document, and no later
\* stage runs.
C5_Stage1FailureIsFatal ==
  (Enhanced /\ Len(replies) >= 1 /\ ~StageSucceeded(1))
    => /\ pc = "done"
       /\ response.status # 200
       /\ response.success = "false"
       /\ response.error # Null
       /\ response.content = Null
       /\ StageNames(stageLog) = <<"generate">>
       /\ outbound = 1
       /\ parserInput = NoText

C5_Witness ==
  /\ Enhanced /\ Answered /\ StageFailed(1)
  /\ replies[1].status = 200
  /\ response.status = 500

\* C6: in the multi-stage endpoint, once stage 1 succeeded the request is
\* answered with status 200, success true and a document, whatever the
\* replies to the stage-2 and stage-3 calls.
C6_LaterFailuresNotSurfaced ==
  (Enhanced /\ Answered /\ StageSucceeded(1))
    => /\ response.status = 200
       /\ response.success = "true"
       /\ response.content = "docx"
       /\ response.error = Null

\* C7: a request whose fileType is not PDF, DOCX or PPTX is rejected with
\* the unsupported-file-type error and no generation-service call is made
\* for it.
C7_UnsupportedTypeRejectedFirst ==
  (req.method = "POST" /\ req.fileType \notin {PDF, DOCX, PPTX})
    => /\ outbound = 0
       /\ pc = "done"
       /\ response = ErrorResponse(ErrUnsupported)

C7_Witness ==
  /\ Answered /\ req.fileType = PNG /\ req.apiKey /\ req.b64ok
  /\ response.error = ErrUnsupported

\* C8 as stated: when the API key is absent the request fails with success
\* false and the configuration error message, without any outbound call.
C8_NoKeyConfigurationError ==
  (Answered /\ ~req.apiKey)
    => /\ response.success = "false"
       /\ response.error = ErrNoKey
       /\ outbound = 0

\* C8 amended: when the API key is absent the request fails with status 500
\* and success false without any outbound call; the message is the
\* configuration error when the file type is supported and the file content
\* decodes, and the error of the file check that comes first otherwise.
C8_NoKeyFails ==
  (req.method = "POST" /\ ~req.apiKey)
    => /\ outbound = 0
       /\ pc = "done"
       /\ response.status = 500
       /\ response.success = "false"
       /\ response.content = Null
       /\ response.error =
            (IF req.fileType \notin {PDF, DOCX, PPTX} THEN ErrUnsupported
             ELSE IF ~req.b64ok THEN ErrDecode ELSE ErrNoKey)

C8_Witness ==
  /\ Answered /\ ~req.apiKey /\ req.fileType = DOCX /\ req.b64ok
  /\ response.error = ErrNoKey

\* C10: in the multi-stage endpoint a request that produces a document ran
\* generate, enhance, compliance, format and the parser in this order, each
\* once, with at most one generation-service call outstanding at any time;
\* stage 2 received the stage-1 text, stages 3 and 4 the stage-2 output,
\* stage 4 also the stage-3 result, and the parser the stage-4 output.
C10_StagesInOrder ==
  /\ pending <= 1
  /\ (Enhanced /\ Answered /\ response.content = "docx")
       => /\ StageNames(stageLog) = <<"generate", "enhance", "compliance", "format", "parse">>
          /\ outbound = 3
          /\ Len(replies) = 3
          /\ stageLog[2].input = aiContent
          /\ stageLog[3].input = validatedContent
          /\ stageLog[4].input = validatedContent
          /\ stageLog[4].check = complianceCheck
          /\ stageLog[5].input = finalContent
          /\ parserInput = finalContent

C10_Witness ==
  /\ Enhanced /\ Answered /\ response.content = "docx"
  /\ StageSucceeded(2) /\ StageSucceeded(3)
  /\ aiContent # validatedContent
  /\ validatedContent # finalContent

\* ----------------------------------------------------- claims on the hook
\* C1: at most one generation is in flight on the client: while a generation
\* has not settled, a call of generateProject or retryGeneration starts no
\* second file read and no second request.
C1_SingleGenerationInFlight == Len(calls) <= 1

MissingInput(file, projectData) ==
  \/ file = NoFile
  \/ projectData.name = ""
  \/ projectData.rollNumber = ""
  \/ projectData.enrollmentNumber = ""
  \/ projectData.college = ""
  \/ projectData.topic = ""

\* C9: generateProject called without a file or with an empty name,
\* rollNumber, enrollmentNumber, college or topic fails with the validation
\* error, and starts neither a file read nor a request.
C9_ValidationBeforeIO ==
  [][\A <<file, projectData, fileAnalysis>> \in Arguments :
       (MissingInput(file, projectData)
          /\ \E caller \in Callers : generateProject(file, projectData, fileAnalysis, caller))
         => /\ calls' = calls
            /\ state'.error = ErrMissing
            /\ ~state'.isLoading
            /\ state'.generatedContent = Null]_vars

C9_Witness ==
  /\ lastGenerationRef.file # NoFile
  /\ lastGenerationRef.projectData.topic = ""
  /\ state.error = ErrMissing
  /\ calls = <<>>

\* The request an invocation sent is the one generateProject builds from the
\* invocation's own arguments.
SentOwnRequest(c) ==
  c.at = "reading"
    \/ c.body = [fileContent |-> DataURL(c.file), fileName |-> c.file,
                 studentData |-> c.projectData,
                 fileAnalysis |-> IF c.fileAnalysis = "analysis" THEN "summary" ELSE "undefined"]

\* C11: a retryGeneration step taken while inputs are stored is a
\* generateProject step with the stored file, projectData and fileAnalysis
\* (the inputs of the latest generateProject call), and the invocation it
\* starts sends the request built from them; taken while nothing is stored it
\* changes neither the state nor the stored inputs and starts no invocation.
C11_RetryReplaysLastInputs ==
  [][/\ RetryGeneration(MaxRetryCalls) =>
          IF lastGenerationRef.set
          THEN /\ generateProject(lastGenerationRef.file, lastGenerationRef.projectData,
                                  lastGenerationRef.fileAnalysis, "retryGeneration")
               /\ lastGenerationRef' = lastGenerationRef
          ELSE /\ state' = state
               /\ calls' = calls
               /\ lastGenerationRef' = lastGenerationRef
     /\ \A <<file, projectData, fileAnalysis>> \in Arguments :
          (\E caller \in Callers : generateProject(file, projectData, fileAnalysis, caller))
            => lastGenerationRef' = [set |-> TRUE, file |-> file, projectData |-> projectData,
                                     fileAnalysis |-> fileAnalysis]
     /\ \A i \in 1..Len(calls') : SentOwnRequest(calls'[i])]_vars

C11_Witness ==
  /\ toast = ToastGenerated
  /\ \E i \in DOMAIN calls :
       /\ calls[i].caller = "retryGeneration"
       /\ calls[i].fileAnalysis = "analysis"
       /\ calls[i].at = "fetching"
       /\ calls[i].body.fileAnalysis = "summary"
       /\ lastGenerationRef.fileAnalysis = "analysis"

\* the generation-service calls a request has issued for a stage
CallsOfStage(log, stage) == Cardinality({i \in DOMAIN log : log[i].stage = stage})

\* C12: a request to the endpoint issues at most one generation-service call
\* per stage, at most three in all for the multi-stage endpoint and one for
\* the single-stage ones, whatever the replies; an invocation of
\* generateProject sends at most one request, and none before its file is
\* read.
C12_NoAutomaticRetry ==
  /\ outbound <= 3
  /\ outbound = Len(replies) + pending
  /\ variant # "enhanced" => outbound <= 1
  /\ variant = "enhanced" =>
       /\ \A stage \in {"generate", "enhance", "compliance"} : CallsOfStage(stageLog, stage) <= 1
       /\ outbound = CallsOfStage(stageLog, "generate") + CallsOfStage(stageLog, "enhance")
                       + CallsOfStage(stageLog, "compliance")
  /\ \A i \in DOMAIN calls :
       calls[i].requests = IF calls[i].at = "reading" THEN 0 ELSE 1

C12_Witness ==
  /\ variant = "enhanced" /\ pc = "done"
  /\ outbound = 3
  /\ replies[1].status = 200 /\ replies[2].status = 429 /\ replies[3].status = 0
  /\ Len(calls) = 1 /\ calls[1].requests = 1

\* what an invocation of generateProject leaves behind
HookSettled == ~state.isLoading /\ (state.generatedContent # Null \/ state.error # Null)

ErrorToasts ==
  {ErrUpload, ErrFields, ErrRead, ErrNetwork, ErrSyntax, ErrGenerationFailed, ErrDefault, "E", "T"}

\* what an invocation of handleGenerate leaves behind
CardSettled == ~card.isGenerating /\ (card.generatedFile # Null \/ toast \in ErrorToasts)

\* C13: every invocation of generateProject and of handleGenerate that
\* started a file read eventually ends, and the step that ends it leaves the
\* loading flag false with the generated content set or an error reported;
\* an invocation that fails validation does the same at once.
C13_GenerationTerminates ==
  /\ \A k \in 1..MaxLiveCalls :
       (k \in CallIds(calls)) ~> (k \notin CallIds(calls) /\ HookSettled)
  /\ (cardCalls # <<>>) ~> (cardCalls = <<>> /\ CardSettled)
  /\ [][/\ Len(calls') < Len(calls) => HookSettled'
        /\ Len(cardCalls') < Len(cardCalls) => CardSettled'
        /\ \A <<file, projectData, fileAnalysis>> \in Arguments :
             (MissingInput(file, projectData)
                /\ generateProject(file, projectData, fileAnalysis, "component"))
               => HookSettled'
        /\ (handleGenerate /\ (card.selectedFile = NoFile
                                 \/ \E f \in RequiredFields : card.formData[f] = ""))
             => CardSettled']_vars

C13_Witness ==
  /\ mounted = "hook"
  /\ calls = <<>>
  /\ state.error = ErrGenerationFailed
  /\ ~state.isLoading
  /\ state.generatedContent = Null

\* the requests invocation c has sent, 0 when it is not in flight
RequestsOf(cs, k) ==
  IF \E i \in DOMAIN cs : cs[i].id = k
  THEN (CHOOSE c \in {cs[i] : i \in DOMAIN cs} : c.id = k).requests
  ELSE 0

\* an invocation that has sent its request has read its file, and the
\* request carries the data URL of that file
ConvertedFirst(c) ==
  IF c.at = "reading" THEN c.requests = 0
  ELSE c.body.fileContent = <<"data:", c.file, ";base64">>

\* C14: in the hook and in the card, a request is sent only by an invocation
\* whose file read has just completed, with the converted file as content;
\* the step in which a file read fails sends no request and ends the
\* invocation.
C14_RequestAfterConversion ==
  [][/\ \A i \in DOMAIN calls' : ConvertedFirst(calls'[i])
     /\ \A i \in DOMAIN cardCalls' : ConvertedFirst(cardCalls'[i])
     /\ \A k \in 1..MaxLiveCalls :
          RequestsOf(calls', k) > RequestsOf(calls, k)
            => \E i \in DOMAIN calls : calls[i].id = k /\ calls[i].at = "reading"
     /\ (cardCalls # <<>> /\ cardCalls' # <<>> /\ cardCalls'[1].requests > cardCalls[1].requests)
          => cardCalls[1].at = "reading"
     /\ (state'.error = ErrDefault /\ state.error # ErrDefault)
          => \A k \in 1..MaxLiveCalls : RequestsOf(calls', k) <= RequestsOf(calls, k)
     /\ (toast' = ErrRead /\ toast # ErrRead)
          => cardCalls = <<[at |-> "reading", file |-> cardCalls[1].file,
                            formData |-> cardCalls[1].formData, requests |-> 0, body |-> NoBody]>>
               /\ cardCalls' = <<>>]_vars

C14_Witness ==
  /\ mounted = "hook"
  /\ state.error = ErrDefault
  /\ Len(calls) = 1
  /\ calls[1].at = "fetching"
  /\ calls[1].requests = 1
  /\ calls[1].body.fileContent = DataURL("report.docx")

\* C15: the response to a request that is not OPTIONS is either status 200
\* with success true and a document, or a status other than 200 with success
\* false, an error message and no document.
C15_ResponseShapes ==
  Answered =>
    \/ /\ response.status = 200
       /\ response.success = "true"
       /\ response.content # Null
       /\ response.error = Null
    \/ /\ response.status # 200
       /\ response.success = "false"
       /\ response.error # Null
       /\ response.content = Null

\* ---------------------------------------------------- claims on the parser
Parsed == applied = "parseMSBTEContent"

\* the fields of a parse result that belong to the marker of index i
FieldsOf(r, i) ==
  IF i = 1 THEN <<r.annexure1.aims>>
  ELSE IF i = 2 THEN <<r.annexure1.courseOutcome>>
  ELSE IF i = 3 THEN <<r.annexure1.methodology>>
  ELSE IF i = 4 THEN <<r.annexure2.rationale>>
  ELSE IF i = 5 THEN <<r.annexure2.aims>>
  ELSE IF i = 6 THEN <<r.annexure2.courseOutcome>>
  ELSE IF i = 7 THEN <<r.annexure2.literatureIntro, r.annexure2.literaturePoints>>
  ELSE IF i = 8 THEN <<r.annexure2.methodology>>
  ELSE IF i = 9 THEN <<r.annexure2.skills>>
  ELSE <<r.annexure2.applications>>

SomeMissing(sections) == \E i \in DOMAIN Markers : sections[i] = Absent

\* C16: for a text that lacks some of the ten markers, every field of a
\* missing marker is empty (the empty string and the empty list are both the
\* empty sequence), and the fields of a marker that is present are those the
\* parser returns for that section written alone.
C16_MissingMarkersTolerated ==
  (Parsed /\ SomeMissing(argument.sections)) =>
    \A i \in DOMAIN Markers :
      IF argument.sections[i] = Absent
      THEN \A k \in DOMAIN FieldsOf(result, i) : FieldsOf(result, i)[k] = <<>>
      ELSE FieldsOf(result, i)
             = FieldsOf(parseMSBTEContent(<<Markers[i], "NL">> \o argument.sections[i] \o <<"NL">>), i)

C16_Witness ==
  /\ Parsed
  /\ argument.sections[1] = Absent
  /\ argument.sections[4] = <<"w", "##", "w">>
  /\ argument.sections[9] = <<"-", "NL", "-">>
  /\ result.annexure1.aims = <<>>
  /\ result.annexure2.rationale = <<"w">>
  /\ result.annexure2.skills = << <<"-">>, <<"-">> >>
  /\ result.annexure2.applications = <<>>

Has(line, t) == \E k \in DOMAIN line : line[k] = t

Padded(s) == s # <<>> /\ (Space(s[1]) \/ Space(s[Len(s)]))

\* the lines of a list section are not blank and not padded
ListLines(c) == \A k \in DOMAIN Lines(c) : Lines(c)[k] # <<>> /\ ~Padded(Lines(c)[k])

\* content as the prompt asks for it under the marker of index i: not empty,
\* not padded, without two hashes; a list section is one bullet a line
\* (dashed everywhere, lettered too in the aims of Annexure II, any line in
\* the course outcomes); the literature section is an introduction line and
\* at least one point, each point with a dash or a colon
WellFormed(i, c) ==
  /\ c # <<>> /\ c # Absent /\ ~Padded(c)
  /\ \A k \in DOMAIN c : ~Hashes(c[k])
  /\ i \in {2, 5, 6, 7, 9, 10} => ListLines(c)
  /\ i = 5 => \A k \in DOMAIN Lines(c) : Has(Lines(c)[k], "-") \/ Lines(c)[k][1] = "a)"
  /\ i \in {9, 10} => \A k \in DOMAIN Lines(c) : Has(Lines(c)[k], "-")
  /\ i = 7 => /\ Len(Lines(c)) >= 2
              /\ \A k \in 2..Len(Lines(c)) : Has(Lines(c)[k], "-") \/ Has(Lines(c)[k], ":")

AllWellFormed(sections) == \A i \in DOMAIN Markers : WellFormed(i, sections[i])

\* lines written one to a line
RECURSIVE Joined(_)
Joined(lines) ==
  IF lines = <<>> THEN <<>>
  ELSE IF Len(lines) = 1 THEN lines[1]
  ELSE lines[1] \o <<"NL">> \o Joined(Tail(lines))

\* the content that the fields of the marker of index i hold
Recovered(r, i) ==
  IF i \in {1, 3, 4, 8} THEN FieldsOf(r, i)[1]
  ELSE IF i = 7 THEN Joined(<<FieldsOf(r, i)[1]>> \o FieldsOf(r, i)[2])
  ELSE Joined(FieldsOf(r, i)[1])

\* the fields of a parse result that are not empty, as <<marker index, field>>
Populated(r) ==
  {<<i, k>> \in (DOMAIN Markers) \X {1, 2} : k \in DOMAIN FieldsOf(r, i) /\ FieldsOf(r, i)[k] # <<>>}

\* C17 as stated: for a text of the ten markers, each followed by well-formed
\* content, the parse result has exactly ten populated fields and they hold
\* the inserted contents.
C17_TenPopulatedFields ==
  (Parsed /\ AllWellFormed(argument.sections)) =>
    /\ Cardinality(Populated(result)) = 10
    /\ \A i \in DOMAIN Markers : Recovered(result, i) = argument.sections[i]

\* C17 amended: for a text of the ten markers, each followed by well-formed
\* content, the parse result has its eleven fields populated (the literature
\* section fills two: its first line and its points) and the fields of each
\* marker hold the inserted content: a text field is the content, a list field
\* is the lines of the content.
C17_RoundTrip ==
  (Parsed /\ AllWellFormed(argument.sections)) =>
    /\ Cardinality(Populated(result)) = 11
    /\ \A i \in DOMAIN Markers : Recovered(result, i) = argument.sections[i]

C17_Witness ==
  /\ Parsed
  /\ AllWellFormed(argument.sections)
  /\ argument.sections[7] = <<"w", "NL", "-", "w", "NL", "w", ":", "w">>
  /\ argument.sections[4] = <<"-", "NL", "-">>
  /\ result.annexure2.rationale = <<"-", "NL", "-">>
  /\ result.annexure2.literatureIntro = <<"w">>
  /\ result.annexure2.literaturePoints = << <<"-", "w">>, <<"w", ":", "w">> >>
  /\ result.annexure1.courseOutcome = << <<"a)", "w">>, <<"a)", "w">> >>

\* ------------------------------------------- claims on the quality metrics
Succeeded ==
  variant = "enhanced" /\ pc = "done" /\ response.status = 200 /\ response.success = "true"

\* C18: every score in qualityMetrics of a successful response lies in
\* 0..100, whatever the generation service answered in the three stages and
\* whether or not the reference document had sections.
C18_ScoresInRange ==
  Succeeded =>
    \A sections \in {0, 1} :
      LET metrics == qualityMetrics(calculateInitialQualityMetrics(aiContent, sections),
                                    complianceCheck)
      IN \A score \in DOMAIN metrics : metrics[score] \in 0..100

\* -------------------------------------------------- claims on extraction
ExtractionReturned ==
  applied \in {"extractFromPDF", "extractFromDOCX", "extractFromPPTX"} /\ ~result.thrown

\* the decoded bytes hold nothing the text pattern of the type matches: for a
\* PDF only unprintable bytes, for the other two no text run of the type
NoMatchableText(a) ==
  LET bytes == a.fileContent.bytes
  IN IF a.fileType = PDF THEN \A i \in DOMAIN bytes : bytes[i] = "#"
     ELSE IF a.fileType = DOCX THEN \A i \in DOMAIN bytes : bytes[i] # "wt"
     ELSE \A i \in DOMAIN bytes : bytes[i] # "at"

LacksField(r) ==
  /\ r.status = 200 /\ r.choices /\ r.content
  /\ (r.body.cs = NoScore \/ r.body.ic = NoMatch \/ r.body.lists = NoMatch \/ r.body.qs = NoScore)

\* C20: when the analysis returned to checkMSBTECompliance lacks a field, the
\* compliance check is the conservative default (compliance score 70, quality
\* score 75, one generic issue) and the request, whose stage 2 produced a text,
\* is answered with success.
C20_DefaultsWhenFieldMissing ==
  [][\A r \in AnalysisReplies :
       (variant = "enhanced" /\ validatedContent # NullContent /\ LacksField(r) /\ Stage3Reply(r)) =>
         /\ complianceCheck'.complianceScore = 70
         /\ complianceCheck'.qualityScore = 75
         /\ complianceCheck'.issues = <<"Compliance check failed">>
         /\ response'.status = 200 /\ response'.success = "true"]_vars

\* ------------------------------------------------------ claims on stage 4
Formatted == applied \in {"applyFinalFormatting", "applyFinalFormatting twice"}

\* C21: applyFinalFormatting issues no generation-service call; its output is
\* its input, normalised by enhanceFormatting exactly when the compliance
\* score is below 80, and then rewritten by enhanceQuality exactly when the
\* quality score is below 85; with both scores at or above their thresholds
\* the output is the input.
C21_FormattingByThresholds ==
  Formatted =>
    LET content == argument.content
        low == argument.complianceCheck.complianceScore < 80
        weak == argument.complianceCheck.qualityScore < 85
    IN /\ outbound = 0 /\ pending = 0
       /\ (low /\ weak) => result.once = enhanceQuality(enhanceFormatting(content))
       /\ (low /\ ~weak) => result.once = enhanceFormatting(content)
       /\ (~low /\ weak) => result.once = enhanceQuality(content)
       /\ (~low /\ ~weak) => result.once = content

C21_Witness ==
  /\ applied = "applyFinalFormatting"
  /\ argument.complianceCheck.complianceScore = 79
  /\ argument.complianceCheck.qualityScore = 84
  /\ enhanceFormatting(argument.content) # argument.content
  /\ result.once # enhanceFormatting(argument.content)
  /\ result.once # enhanceQuality(argument.content)

\* the header lines of a text: its lines that start with "## MARKER"
HeaderLines(text) == SelectSeq(Lines(text), LAMBDA line : line # <<>> /\ line[1] = "H")

\* C28: applying applyFinalFormatting to its own output with the same
\* compliance check returns that output, and the output has the header lines
\* of the input, in the same number and order.
C28_FormattingIdempotent ==
  applied = "applyFinalFormatting twice" =>
    /\ result.twice = result.once
    /\ Len(HeaderLines(result.once)) = Len(HeaderLines(argument.content))

\* ------------------------------------------ claims on the parser's lists
\* the list-valued field of the marker of index i
ListOf(r, i) == IF i = 7 THEN FieldsOf(r, i)[2] ELSE FieldsOf(r, i)[1]

ListMarkers == {2, 5, 6, 7, 9, 10}

\* the line has a bullet or a dash, starts with a letter and a bracket, or,
\* in the literature section, has a colon
LooksLikeBullet(i, line) ==
  \/ Has(line, "-")
  \/ line # <<>> /\ line[1] = "a)"
  \/ i = 7 /\ Has(line, ":")

\* part, in this order, is what is left of whole when elements are dropped
RECURSIVE SubSequence(_, _)
SubSequence(part, whole) ==
  IF part = <<>> THEN TRUE
  ELSE IF whole = <<>> THEN FALSE
  ELSE IF Head(part) = Head(whole) THEN SubSequence(Tail(part), Tail(whole))
  ELSE SubSequence(part, Tail(whole))

\* C22: every element of every list-valued field is a non-empty, trimmed line
\* of its section that looks like a bullet, and the elements are in the order
\* of the lines of the section.
C22_ListsHoldBullets ==
  Parsed =>
    \A i \in ListMarkers :
      /\ \A k \in DOMAIN ListOf(result, i) :
           /\ ListOf(result, i)[k] # <<>>
           /\ ~Padded(ListOf(result, i)[k])
           /\ LooksLikeBullet(i, ListOf(result, i)[k])
      /\ SubSequence(ListOf(result, i),
                     Trimmed(Lines(MSBTEValidator_extractSection(argument.text, Markers[i]))))

\* --------------------------------------- claims on overlapping generations
\* what the hook shows of a generation
Outcome(st) ==
  <<st.generatedContent, st.qualityMetrics, st.complianceInfo, st.suggestions, st.error>>

\* the outcome of one call: a content without an error, or an error alone
OneOutcome(st) ==
  \/ st.generatedContent # Null /\ st.error = Null
  \/ /\ st.error # Null /\ st.generatedContent = Null /\ st.qualityMetrics = Null
     /\ st.complianceInfo = Null /\ st.suggestions = <<>>

\* the call was started with the arguments stored last
StartedLast(c) ==
  /\ lastGenerationRef.set
  /\ <<c.file, c.projectData, c.fileAnalysis>>
       = <<lastGenerationRef.file, lastGenerationRef.projectData, lastGenerationRef.fileAnalysis>>

\* the call started last is not in flight: it has settled
LastHasSettled ==
  lastGenerationRef.set /\ \A i \in DOMAIN calls : ~StartedLast(calls[i])

\* C23: when calls overlap, a call that settles after the call started last
\* has settled leaves what the hook shows unchanged, and once every call has
\* settled the hook shows the outcome of one call.
C23_LaterCallWins ==
  [][/\ (LastHasSettled /\ Len(calls') < Len(calls)) => Outcome(state') = Outcome(state)
     /\ (calls # <<>> /\ calls' = <<>>) => OneOutcome(state')]_vars

\* ------------------------------------------------------ claims on reset
\* C25: resetGeneration puts the hook in its initial state with no stored
\* inputs, and from such a state every step that is not a call of
\* generateProject (which stores its inputs) leaves the state initial:
\* retryGeneration, and the completions of the invocations in flight.
C25_ResetHolds ==
  [][/\ ResetGeneration => (state' = InitialState /\ ~lastGenerationRef'.set)
     /\ (state = InitialState /\ ~lastGenerationRef.set /\ ~lastGenerationRef'.set)
          => state' = InitialState]_vars

\* ---------------------------------------------- claims on a failed call
\* the step is the failure of a generateProject call: its validation failed
\* (inputs stored, no invocation added), or its invocation ended and the toast
\* is not the toast of success
FailureStep ==
  \/ calls' = calls /\ lastGenerationRef'.set /\ toast' = ErrMissing
  \/ Len(calls') < Len(calls) /\ toast' # ToastGenerated

\* C26: with one call at a time and nothing else called, a generateProject
\* call that fails leaves the error set to the message shown, isLoading
\* false, the stage idle, the progress 0, and no content, metrics or
\* compliance information.
C26_FailureClearsResult ==
  [][FailureStep =>
       /\ state'.error # Null /\ state'.error = toast'
       /\ ~state'.isLoading
       /\ state'.currentStage = "idle"
       /\ state'.progress = 0
       /\ state'.generatedContent = Null
       /\ state'.qualityMetrics = Null
       /\ state'.complianceInfo = Null]_vars

C26_Witness ==
  /\ calls = <<>>
  /\ lastGenerationRef.set /\ lastGenerationRef.fileAnalysis # NoFileAnalysis
  /\ toast = "E"
  /\ state.error = "E"
  /\ state.generatedContent = Null
  /\ state.currentStage = "idle"

\* ------------------------------------------ claims on the completed stage
\* C24: in every reachable state of the hook, whatever the interleaving of
\* generateProject, enhanceContent, retryGeneration and resetGeneration with
\* the completions that are pending, the stage 'completed' implies that
\* generatedContent is not null.
C24_CompletedHasContent ==
  state.currentStage = "completed" => state.generatedContent # Null

\* ------------------------------------------- claims on stage and progress
Rank(stage) ==
  CASE stage = "idle" -> 0
    [] stage = "analyzing" -> 1
    [] stage = "generating" -> 2
    [] stage = "enhancing" -> 3
    [] stage = "completed" -> 4

ProgressInRange == state.progress \in 0..100

\* a statement of the running invocation: the stage and the progress only
\* move forward; its first statement opens with analyzing and 0; its last
\* one leaves completed with 100, or idle with 0
SingleCallAdvances ==
  /\ (~Running /\ Running') =>
        state'.currentStage = "analyzing" /\ state'.progress = 0
  /\ (Running /\ Running') =>
        /\ Rank(state'.currentStage) >= Rank(state.currentStage)
        /\ state'.currentStage # "idle"
        /\ state'.progress >= state.progress
        /\ state'.progress \in 0..100
  /\ (Running /\ ~Running') =>
        \/ state'.currentStage = "completed" /\ state'.progress = 100
        \/ state'.currentStage = "idle" /\ state'.progress = 0

\* C27: the progress is within 0..100 in every reachable state, whatever
\* the argument of updateProgress; and while one generateProject call runs
\* with nothing interleaved, the stage follows analyzing, generating,
\* enhancing, completed in that order and the progress never decreases,
\* until the call completes with 100 or fails back to idle with 0.
C27_ProgressMovesForward ==
  [][ProgressInRange' /\ SingleCallAdvances]_vars

\* ------------------------------------------------ claims on the validator
ValidatedDocument == applied = "validateDocument"

\* the weights of the requirements whose validator passes, from requirement i on
RECURSIVE PassingWeight(_, _)
PassingWeight(content, i) ==
  IF i > Len(initializeRequirements) THEN 0
  ELSE (IF validator(initializeRequirements[i], content)
        THEN initializeRequirements[i].weight ELSE 0)
       + PassingWeight(content, i + 1)

RECURSIVE TotalWeight(_)
TotalWeight(i) ==
  IF i > Len(initializeRequirements) THEN 0
  ELSE initializeRequirements[i].weight + TotalWeight(i + 1)

ErrorIssues == {i \in DOMAIN result.issues : result.issues[i].type = "error"}

MissingSectionIssues ==
  {i \in DOMAIN result.issues :
     \E section \in MarkerSet : result.issues[i].id = MissingSection(section)}

ScoreIsWeightedShare ==
  /\ result.overallCompliance = result.score
  /\ result.score \in 0..100
  /\ result.score = Round(100 * PassingWeight(argument.content, 1), TotalWeight(1))

\* C29: validateDocument returns overallCompliance, equal to score, as an
\* integer in 0..100 that is the rounded weighted share of the requirements
\* whose validator passes; isValid is true exactly when no issue of type
\* 'error' is reported; isValid implies score 100; and score 100 implies
\* that no 'Missing required MSBTE section' error is reported.
C29_ScoreAndValidity ==
  ValidatedDocument =>
    /\ ScoreIsWeightedShare
    /\ result.isValid <=> ErrorIssues = {}
    /\ result.isValid => result.score = 100
    /\ result.score = 100 => MissingSectionIssues = {}

\* ------------------------------------------------- claims on the enhancer
KnownIds == {ENHANCEMENT_TYPES[i].id : i \in DOMAIN ENHANCEMENT_TYPES}

AvailableReturned ==
  applied = "getAvailableEnhancements" =>
    /\ ~result.thrown
    /\ Len(result.value) = 6
    /\ {result.value[i].id : i \in DOMAIN result.value} = KnownIds
    /\ Cardinality(KnownIds) = 6

\* C30: the lookups of ContentEnhancer never throw: getAvailableEnhancements
\* returns the six enhancement descriptors, and getEnhancementById(id)
\* returns the descriptor whose id is id for each of the six known ids and
\* undefined for every other id.
C30_LookupsNeverThrow ==
  /\ AvailableReturned
  /\ applied = "getEnhancementById" =>
       /\ ~result.thrown
       /\ argument \in KnownIds =>
            Len(result.value) = 1 /\ result.value[1].id = argument
       /\ argument \notin KnownIds => result.value = <<>>

====
